---- MODULE Spec2Model ----
(***************************************************************************)
(* A model of the real-estate CRM (src/crm): the four tables Collaborator, *)
(* Property, Client and Task, the ModelForms that validate submissions,    *)
(* the request handlers of views.py, the service layer of services.py and  *)
(* the status helpers of models.py.                                        *)
(*                                                                         *)
(* Conventions.  A primary key is a positive integer handed out by the     *)
(* table's auto-increment counter; NULL (0) is the absent foreign key.     *)
(* Text is a sequence of one-character strings, so that trimming is        *)
(* computed.  An optional integer is <<>> (absent) or <<n>>.  Prices are   *)
(* whole currency units, dates are day numbers and the modification        *)
(* timestamp is recorded to the day.                                       *)
(***************************************************************************)
EXTENDS Integers, Sequences, FiniteSets, TLC

VARIABLES collaborators, properties, clients, tasks, links, next_pk, today, inst, resp

vars == <<collaborators, properties, clients, tasks, links, next_pk, today, inst, resp>>

store == <<collaborators, properties, clients, tasks, links>>

\* ------------------------------------------------------------------ bounds

\* Rows ever inserted, all tables together.
MaxRows == 4

\* Rows ever inserted into one table.
MaxPerTable == 2

\* Rows ever inserted where single requests are examined closely (SpecMark,
\* SpecForm).
MaxFewRows == 2

\* Rows ever inserted where single form fields are examined (SpecChoice,
\* SpecText, SpecPhone).
MaxFieldRows == 1

\* Properties ever inserted where PropertyForm's rules are examined
\* (SpecProperty).
MaxProperties == 1

\* The last day the clock reaches; it starts at day 1, so day 0 is the past.
MaxDay == 2

\* ------------------------------------------------------------- constants.py

NULL == 0

CollaboratorRole_CHOICES == {"AGENT", "MANAGER", "ADMIN", "ASSISTANT"}

PropertyType_CHOICES == {"HOUSE", "CONDO", "TOWNHOUSE", "LAND", "COMMERCIAL"}

PropertyStatus_CHOICES == {"AVAILABLE", "PENDING", "SOLD", "RENTED", "WITHDRAWN"}

ClientType_CHOICES == {"BUYER", "SELLER", "BOTH"}

TaskStatus_CHOICES == {"PENDING", "IN_PROGRESS", "COMPLETE", "CANCELLED"}

TaskPriority_CHOICES == {"LOW", "MEDIUM", "HIGH"}

MIN_PHONE_DIGITS == 10

MAX_PHONE_LENGTH == 20

Kinds == {"Collaborator", "Property", "Client", "Task"}

\* The key under which a form reports a record-level error (NON_FIELD_ERRORS).
NON_FIELD == "__all__"

\* --------------------------------------------------------------- text helpers

Digits == {"0", "1", "2", "3", "4", "5", "6", "7", "8", "9"}

RECURSIVE LStrip(_)
LStrip(s) == IF s # <<>> /\ Head(s) = " " THEN LStrip(Tail(s)) ELSE s

RECURSIVE RStrip(_)
RStrip(s) ==
    IF s # <<>> /\ s[Len(s)] = " " THEN RStrip(SubSeq(s, 1, Len(s) - 1)) ELSE s

\* str.strip()
\* A strip that leaves the text as it is.
Strip_none(s) == s

Strip(s) == RStrip(LStrip(s))

\* ''.join(filter(str.isdigit, phone))
DigitsOf(s) == SelectSeq(s, LAMBDA ch : ch \in Digits)

\* ------------------------------------------------------------------ tables

Table(kind) ==
    CASE kind = "Collaborator" -> collaborators
      [] kind = "Property" -> properties
      [] kind = "Client" -> clients
      [] kind = "Task" -> tasks

\* A lookup that finds a row under every key.
Exists_any(kind, pk) == TRUE

Exists(kind, pk) == pk \in DOMAIN Table(kind)

RowsAllocated ==
    (next_pk["Collaborator"] - 1) + (next_pk["Property"] - 1)
        + (next_pk["Client"] - 1) + (next_pk["Task"] - 1)

\* Whether the model lets one more row be inserted into the kind's table.
MayInsert(kind) == RowsAllocated < MaxRows /\ next_pk[kind] <= MaxPerTable

\* A function with one more (or one replaced) row.
Put(tbl, pk, rec) == [k \in DOMAIN tbl \cup {pk} |-> IF k = pk THEN rec ELSE tbl[k]]

Drop(tbl, pks) == [k \in DOMAIN tbl \ pks |-> tbl[k]]

\* No in-memory instance is held between requests.
NoInst == [kind |-> "none"]

NoData == [none |-> TRUE]

Response(op, kind, pk, outcome, errors, data) ==
    [op |-> op, kind |-> kind, pk |-> pk, outcome |-> outcome,
     errors |-> errors, data |-> data]

Init ==
    /\ collaborators = <<>>
    /\ properties = <<>>
    /\ clients = <<>>
    /\ tasks = <<>>
    /\ links = {}
    /\ next_pk = [k \in Kinds |-> 1]
    /\ today = 1
    /\ inst = NoInst
    /\ resp = Response("init", "none", NULL, "ok", {}, NoData)

\* ------------------------------------------------------------------- forms.py
\* A form's verdict is the set of keys that carry an error: field names, and
\* NON_FIELD for an error raised by clean().  Each field is first cleaned by
\* its form field (a CharField strips and requires a value, a choice field
\* admits only its choices, a model choice field resolves a key against the
\* table as it is when the form validates), then by the form's clean_<field>,
\* then the form's clean() runs, and last the model's validators and the
\* uniqueness check (_post_clean).

\* forms.CharField.clean: the stripped value; empty fails "required".
CharField_clean(raw) == Strip(raw)

CharField_errors(field, raw) == IF CharField_clean(raw) = <<>> THEN {field} ELSE {}

\* A choice field that admits any value.
ChoiceField_errors_none(field, value, choices) == {}

ChoiceField_errors(field, value, choices) == IF value \in choices THEN {} ELSE {field}

\* ModelChoiceField.clean: NULL is the empty choice, another key must be a row.
ModelChoiceField_errors(field, kind, value) ==
    IF value = NULL \/ Exists(kind, value) THEN {} ELSE {field}

\* cleaned_data.get(field) of a model choice field: None when the field failed.
ModelChoiceField_clean(kind, value) == IF Exists(kind, value) THEN value ELSE NULL

\* Model.validate_unique on email (unique=True), run by the form's _post_clean
\* against the rows other than the instance's own.
unique_email_errors(kind, pk, email) ==
    IF \E k \in DOMAIN Table(kind) : k # pk /\ Table(kind)[k].email = email
    THEN {"email"} ELSE {}

\* A clean_price that lets a price of 0 through.
PropertyForm_clean_price_zero(price) == IF price < 0 THEN {"price"} ELSE {}

PropertyForm_clean_price(price) == IF price <= 0 THEN {"price"} ELSE {}

\* validators=[MinValueValidator(Decimal('0.00'))]
Property_price_validator(price) == IF price < 0 THEN {"price"} ELSE {}

PropertyForm_clean_listing_date(listing_date) ==
    IF listing_date > today THEN {"listing_date"} ELSE {}

PropertyForm_clean_bedrooms(bedrooms) ==
    IF bedrooms # <<>> /\ bedrooms[1] < 0 THEN {"bedrooms"} ELSE {}

PropertyForm_clean_square_feet(square_feet) ==
    IF square_feet # <<>> /\ square_feet[1] < 0 THEN {"square_feet"} ELSE {}

PropertyForm_errors(data, pk) ==
    CharField_errors("address", data.address)
        \cup PropertyForm_clean_price(data.price)
        \cup Property_price_validator(data.price)
        \cup ChoiceField_errors("property_type", data.property_type, PropertyType_CHOICES)
        \cup ChoiceField_errors("status", data.status, PropertyStatus_CHOICES)
        \cup PropertyForm_clean_listing_date(data.listing_date)
        \cup ModelChoiceField_errors("collaborator", "Collaborator", data.collaborator)
        \cup PropertyForm_clean_bedrooms(data.bedrooms)
        \cup PropertyForm_clean_square_feet(data.square_feet)

PropertyForm_cleaned(data) == [data EXCEPT !.address = CharField_clean(data.address)]

\* A clean_phone that asks for more than MIN_PHONE_DIGITS digits.
ClientForm_clean_phone_more(phone) ==
    IF Len(DigitsOf(phone)) <= MIN_PHONE_DIGITS THEN {"phone"} ELSE {}

\* clean_phone sees the field's cleaned value; a value over max_length has
\* already failed in the field.
ClientForm_clean_phone(phone) ==
    IF Len(DigitsOf(phone)) < MIN_PHONE_DIGITS THEN {"phone"} ELSE {}

Client_phone_max_length(phone) == IF Len(phone) > MAX_PHONE_LENGTH THEN {"phone"} ELSE {}

\* clean_name of ClientForm and of CollaboratorForm: the same code twice.
clean_name_errors(name) == IF name # <<>> /\ Strip(name) = <<>> THEN {"name"} ELSE {}

clean_name(name) == IF name # <<>> THEN Strip(name) ELSE name

ClientForm_errors(data, pk) ==
    CharField_errors("name", data.name)
        \cup clean_name_errors(CharField_clean(data.name))
        \cup unique_email_errors("Client", pk, data.email)
        \cup CharField_errors("phone", data.phone)
        \cup Client_phone_max_length(CharField_clean(data.phone))
        \cup ClientForm_clean_phone(CharField_clean(data.phone))
        \cup ChoiceField_errors("client_type", data.client_type, ClientType_CHOICES)

ClientForm_cleaned(data) ==
    [data EXCEPT !.name = clean_name(CharField_clean(data.name)),
                 !.phone = CharField_clean(data.phone)]

CollaboratorForm_errors(data, pk) ==
    CharField_errors("name", data.name)
        \cup clean_name_errors(CharField_clean(data.name))
        \cup unique_email_errors("Collaborator", pk, data.email)
        \cup ChoiceField_errors("role", data.role, CollaboratorRole_CHOICES)

CollaboratorForm_cleaned(data) ==
    [data EXCEPT !.name = clean_name(CharField_clean(data.name))]

\* A clean_due_date that forgets the "not self.instance.pk" condition.
TaskForm_clean_due_date_always(due_date, pk) ==
    IF due_date < today THEN {"due_date"} ELSE {}

\* "if not self.instance.pk and due_date and due_date < date.today()"
TaskForm_clean_due_date(due_date, pk) ==
    IF pk = NULL /\ due_date < today THEN {"due_date"} ELSE {}

TaskForm_clean_title_errors(title) ==
    IF title # <<>> /\ Strip(title) = <<>> THEN {"title"} ELSE {}

TaskForm_clean_title(title) == IF title # <<>> THEN Strip(title) ELSE title

\* A clean() that refuses any reference at all.
TaskForm_clean_either(related_property, client) ==
    IF related_property # NULL \/ client # NULL THEN {NON_FIELD} ELSE {}

\* clean(): "if related_property and client", on the cleaned references.
TaskForm_clean(related_property, client) ==
    IF related_property # NULL /\ client # NULL THEN {NON_FIELD} ELSE {}

TaskForm_errors(data, pk) ==
    CharField_errors("title", data.title)
        \cup TaskForm_clean_title_errors(CharField_clean(data.title))
        \cup TaskForm_clean_due_date(data.due_date, pk)
        \cup ChoiceField_errors("status", data.status, TaskStatus_CHOICES)
        \cup ChoiceField_errors("priority", data.priority, TaskPriority_CHOICES)
        \cup ModelChoiceField_errors("related_property", "Property", data.related_property)
        \cup ModelChoiceField_errors("client", "Client", data.client)
        \cup ModelChoiceField_errors("assigned_to", "Collaborator", data.assigned_to)
        \cup TaskForm_clean(ModelChoiceField_clean("Property", data.related_property),
                            ModelChoiceField_clean("Client", data.client))

TaskForm_cleaned(data) ==
    [data EXCEPT !.title = TaskForm_clean_title(CharField_clean(data.title))]

\* form.is_valid() of the kind's form, bound to `data` and to the instance pk
\* (NULL for a create).
Form_errors(kind, data, pk) ==
    CASE kind = "Collaborator" -> CollaboratorForm_errors(data, pk)
      [] kind = "Property" -> PropertyForm_errors(data, pk)
      [] kind = "Client" -> ClientForm_errors(data, pk)
      [] kind = "Task" -> TaskForm_errors(data, pk)

Form_cleaned(kind, data) ==
    CASE kind = "Collaborator" -> CollaboratorForm_cleaned(data)
      [] kind = "Property" -> PropertyForm_cleaned(data)
      [] kind = "Client" -> ClientForm_cleaned(data)
      [] kind = "Task" -> TaskForm_cleaned(data)

\* ------------------------------------------------------------------ database

SetTable(kind, tbl) ==
    /\ collaborators' = IF kind = "Collaborator" THEN tbl ELSE collaborators
    /\ properties' = IF kind = "Property" THEN tbl ELSE properties
    /\ clients' = IF kind = "Client" THEN tbl ELSE clients
    /\ tasks' = IF kind = "Task" THEN tbl ELSE tasks
    /\ links' = links

\* The in-memory instance built from a form's cleaned data (construct_instance):
\* the form's fields over the loaded row's.
Instance(data, stamp) ==
    [f \in DOMAIN data \cup {"updated_at"} |-> IF f \in DOMAIN data THEN data[f] ELSE stamp]

\* A database without the unique index on email.
IntegrityOk_no_unique(kind, pk, rec) ==
    CASE kind = "Property" ->
            rec.collaborator = NULL \/ Exists("Collaborator", rec.collaborator)
      [] kind = "Task" ->
            /\ rec.related_property = NULL \/ Exists("Property", rec.related_property)
            /\ rec.client = NULL \/ Exists("Client", rec.client)
            /\ rec.assigned_to = NULL \/ Exists("Collaborator", rec.assigned_to)
      [] OTHER -> TRUE

\* A database that enforces the unique emails and no foreign key.
IntegrityOk_unique_only(kind, pk, rec) ==
    CASE kind = "Collaborator" ->
            \A k \in DOMAIN collaborators \ {pk} : collaborators[k].email # rec.email
      [] kind = "Client" ->
            \A k \in DOMAIN clients \ {pk} : clients[k].email # rec.email
      [] OTHER -> TRUE

\* What the database itself enforces on a row written under key pk: the unique
\* index on email (Collaborator, Client) and the foreign keys.
IntegrityOk(kind, pk, rec) ==
    CASE kind = "Collaborator" ->
            \A k \in DOMAIN collaborators \ {pk} : collaborators[k].email # rec.email
      [] kind = "Client" ->
            \A k \in DOMAIN clients \ {pk} : clients[k].email # rec.email
      [] kind = "Property" ->
            rec.collaborator = NULL \/ Exists("Collaborator", rec.collaborator)
      [] kind = "Task" ->
            /\ rec.related_property = NULL \/ Exists("Property", rec.related_property)
            /\ rec.client = NULL \/ Exists("Client", rec.client)
            /\ rec.assigned_to = NULL \/ Exists("Collaborator", rec.assigned_to)

\* A save that writes nothing (form.save(commit=False) and no save after it).
Model_save_nothing(kind, pk, rec) == UNCHANGED <<store, next_pk>>

\* Model.save(): UPDATE the row of the instance's key; when the instance has no
\* key, or no row has it, INSERT.  auto_now stamps updated_at.
Model_save(kind, pk, rec) ==
    LET key == IF pk = NULL THEN next_pk[kind] ELSE pk
        row == [rec EXCEPT !.updated_at = today]
    IN  /\ SetTable(kind, Put(Table(kind), key, row))
        /\ next_pk' = IF pk = NULL THEN [next_pk EXCEPT ![kind] = @ + 1] ELSE next_pk

\* Model.save(update_fields=fields): UPDATE only those columns of the row.
Model_save_fields(kind, pk, rec, fields) ==
    LET old == Table(kind)[pk]
        row == [f \in DOMAIN old |->
                   IF f = "updated_at" THEN today
                   ELSE IF f \in fields THEN rec[f] ELSE old[f]]
    IN  /\ SetTable(kind, Put(Table(kind), pk, row))
        /\ UNCHANGED next_pk

\* A save(update_fields=...) that writes every column of the instance.
Model_save_fields_all(kind, pk, rec, fields) == Model_save(kind, pk, rec)

\* self.save(update_fields=[...]) of the status helpers.
save_update_fields(kind, pk, rec, fields) == Model_save_fields(kind, pk, rec, fields)

\* on_delete=models.CASCADE
Cascade(tbl, field, pk) == Drop(tbl, {k \in DOMAIN tbl : tbl[k][field] = pk})

\* A SET_NULL that deletes the referrers, as CASCADE does.
SetNull_cascading(tbl, field, pk) == Cascade(tbl, field, pk)

\* on_delete=models.SET_NULL
SetNull(tbl, field, pk) ==
    [k \in DOMAIN tbl |-> IF tbl[k][field] = pk THEN [tbl[k] EXCEPT ![field] = NULL] ELSE tbl[k]]

\* A cascade that deletes every row holding any reference in the field.
Cascade_any(tbl, field, pk) == Drop(tbl, {k \in DOMAIN tbl : tbl[k][field] # NULL})

\* The referrers of a deleted row, as each on_delete asks.
on_delete_CASCADE(tbl, field, pk) == Cascade(tbl, field, pk)

on_delete_SET_NULL(tbl, field, pk) == SetNull(tbl, field, pk)

\* Model.delete(): the row, and what its referrers' on_delete asks for.
Model_delete(kind, pk) ==
    /\ collaborators' = IF kind = "Collaborator" THEN Drop(collaborators, {pk}) ELSE collaborators
    /\ properties' =
          CASE kind = "Property" -> Drop(properties, {pk})
            [] kind = "Collaborator" -> on_delete_SET_NULL(properties, "collaborator", pk)
            [] OTHER -> properties
    /\ clients' = IF kind = "Client" THEN Drop(clients, {pk}) ELSE clients
    /\ tasks' =
          CASE kind = "Task" -> Drop(tasks, {pk})
            [] kind = "Property" -> on_delete_CASCADE(tasks, "related_property", pk)
            [] kind = "Client" -> on_delete_CASCADE(tasks, "client", pk)
            [] kind = "Collaborator" -> on_delete_SET_NULL(tasks, "assigned_to", pk)
    /\ links' =
          CASE kind = "Client" -> {l \in links : l.client # pk}
            [] kind = "Property" -> {l \in links : l.property # pk}
            [] OTHER -> links

\* ------------------------------------------------------------------- views.py
\* A request that runs from its first line to its last with no other request
\* in between.

create_view(kind, data) ==
    LET errors == Form_errors(kind, data, NULL) IN
    /\ (errors = {}) => MayInsert(kind)
    /\ IF errors = {}
       THEN /\ Model_save(kind, NULL, Instance(Form_cleaned(kind, data), today))
            /\ resp' = Response("create", kind, next_pk[kind], "saved", {}, data)
       ELSE /\ UNCHANGED <<store, next_pk>>
            /\ resp' = Response("create", kind, NULL, "invalid", errors, data)
    /\ UNCHANGED <<today, inst>>

update_view(kind, pk, data) ==
    /\ IF ~Exists(kind, pk)
       THEN /\ UNCHANGED <<store, next_pk>>
            /\ resp' = Response("update", kind, pk, "not_found", {}, data)
       ELSE LET errors == Form_errors(kind, data, pk) IN
            IF errors = {}
            THEN /\ Model_save(kind, pk,
                               Instance(Form_cleaned(kind, data), Table(kind)[pk].updated_at))
                 /\ resp' = Response("update", kind, pk, "saved", {}, data)
            ELSE /\ UNCHANGED <<store, next_pk>>
                 /\ resp' = Response("update", kind, pk, "invalid", errors, data)
    /\ UNCHANGED <<today, inst>>

delete_view(kind, pk) ==
    /\ IF ~Exists(kind, pk)
       THEN /\ UNCHANGED store
            /\ resp' = Response("delete", kind, pk, "not_found", {}, NoData)
       ELSE /\ Model_delete(kind, pk)
            /\ resp' = Response("delete", kind, pk, "deleted", {}, NoData)
    /\ UNCHANGED <<next_pk, today, inst>>

property_create(data) == create_view("Property", data)

property_update(pk, data) == update_view("Property", pk, data)

property_delete(pk) == delete_view("Property", pk)

client_create(data) == create_view("Client", data)

client_update(pk, data) == update_view("Client", pk, data)

client_delete(pk) == delete_view("Client", pk)

task_create(data) == create_view("Task", data)

task_update(pk, data) == update_view("Task", pk, data)

task_delete(pk) == delete_view("Task", pk)

collaborator_create(data) == create_view("Collaborator", data)

collaborator_update(pk, data) == update_view("Collaborator", pk, data)

collaborator_delete(pk) == delete_view("Collaborator", pk)

\* ---------------------------------------------------------------- services.py

\* BaseService.create: Model.objects.create(**kwargs), an INSERT with no
\* validation; the database raises IntegrityError on its own constraints.
BaseService_create(kind, rec) ==
    /\ MayInsert(kind)
    /\ IF IntegrityOk(kind, NULL, rec)
       THEN /\ Model_save(kind, NULL, Instance(rec, today))
            /\ resp' = Response("service_create", kind, next_pk[kind], "saved", {}, rec)
       ELSE /\ UNCHANGED <<store, next_pk>>
            /\ resp' = Response("service_create", kind, NULL, "IntegrityError", {}, rec)
    /\ UNCHANGED <<today, inst>>

\* The calendar day changes.
Tick ==
    /\ today < MaxDay
    /\ today' = today + 1
    /\ resp' = Response("tick", "none", NULL, "ok", {}, NoData)
    /\ UNCHANGED <<store, next_pk, inst>>

\* ------------------------------------------------- requests that interleave
\* The handlers and the service layer run without a transaction or a lock, so
\* another request may run between a handler's query, its validation and its
\* save.  inst is the instance one such request holds in memory meanwhile.

Held(kind, pk, rec, phase) == [kind |-> kind, pk |-> pk, rec |-> rec, phase |-> phase]

\* get_object_or_404(Model, pk=pk) of an update view; BaseService.get_by_id.
get_object_or_404(kind, pk) ==
    /\ inst = NoInst
    /\ IF Exists(kind, pk)
       THEN /\ inst' = Held(kind, pk, Table(kind)[pk], "loaded")
            /\ resp' = Response("get", kind, pk, "loaded", {}, NoData)
       ELSE /\ inst' = NoInst
            /\ resp' = Response("get", kind, pk, "not_found", {}, NoData)
    /\ UNCHANGED <<store, next_pk, today>>

\* form = Form(request.POST, instance=obj); form.is_valid() of an update view.
update_is_valid(data) ==
    /\ inst # NoInst
    /\ inst.phase = "loaded"
    /\ LET errors == Form_errors(inst.kind, data, inst.pk) IN
       IF errors = {}
       THEN /\ inst' = Held(inst.kind, inst.pk,
                            Instance(Form_cleaned(inst.kind, data), inst.rec.updated_at),
                            "valid")
            /\ resp' = Response("is_valid", inst.kind, inst.pk, "valid", {}, data)
       ELSE /\ inst' = NoInst
            /\ resp' = Response("update", inst.kind, inst.pk, "invalid", errors, data)
    /\ UNCHANGED <<store, next_pk, today>>

\* form = Form(request.POST); form.is_valid() of a create view.
create_is_valid(kind, data) ==
    /\ inst = NoInst
    /\ LET errors == Form_errors(kind, data, NULL) IN
       IF errors = {}
       THEN /\ inst' = Held(kind, NULL, Instance(Form_cleaned(kind, data), today), "valid")
            /\ resp' = Response("is_valid", kind, NULL, "valid", {}, data)
       ELSE /\ inst' = NoInst
            /\ resp' = Response("create", kind, NULL, "invalid", errors, data)
    /\ UNCHANGED <<store, next_pk, today>>

\* form.save() of a create or update view: instance.save().
form_save ==
    /\ inst # NoInst
    /\ inst.phase = "valid"
    /\ (inst.pk = NULL) => MayInsert(inst.kind)
    /\ IF IntegrityOk(inst.kind, inst.pk, inst.rec)
       THEN /\ Model_save(inst.kind, inst.pk, inst.rec)
            /\ resp' = Response("save", inst.kind,
                                IF inst.pk = NULL THEN next_pk[inst.kind] ELSE inst.pk,
                                "saved", {}, NoData)
       ELSE /\ UNCHANGED <<store, next_pk>>
            /\ resp' = Response("save", inst.kind, inst.pk, "IntegrityError", {}, NoData)
    /\ inst' = NoInst
    /\ UNCHANGED today

\* setattr(instance, key, value) for each of kwargs: nothing is saved.
SetAttrs(rec, kwargs) ==
    [f \in DOMAIN rec |-> IF f \in DOMAIN kwargs THEN kwargs[f] ELSE rec[f]]

instance_setattr(kwargs) ==
    /\ inst # NoInst
    /\ inst.phase = "loaded"
    /\ DOMAIN kwargs \subseteq DOMAIN inst.rec
    /\ inst' = [inst EXCEPT !.rec = SetAttrs(inst.rec, kwargs)]
    /\ inst'.rec # inst.rec
    /\ resp' = Response("setattr", inst.kind, inst.pk, "ok", {}, NoData)
    /\ UNCHANGED <<store, next_pk, today>>

\* BaseService.update(instance, **kwargs): setattr each, then instance.save().
BaseService_update(kwargs) ==
    /\ inst # NoInst
    /\ inst.phase = "loaded"
    /\ DOMAIN kwargs \subseteq DOMAIN inst.rec
    /\ LET rec == SetAttrs(inst.rec, kwargs) IN
       IF IntegrityOk(inst.kind, inst.pk, rec)
       THEN /\ Model_save(inst.kind, inst.pk, rec)
            /\ resp' = Response("service_update", inst.kind, inst.pk, "saved", {}, NoData)
       ELSE /\ UNCHANGED <<store, next_pk>>
            /\ resp' = Response("service_update", inst.kind, inst.pk, "IntegrityError", {}, NoData)
    /\ inst' = NoInst
    /\ UNCHANGED today

\* ------------------------------------------------------------------ models.py

\* self.status = value; self.save(update_fields=['status', 'updated_at']).
\* A save with update_fields that finds no row raises DatabaseError.  The
\* caller still holds the instance afterwards.
\* A helper that ends in a plain self.save(): UPDATE, or INSERT when no row is
\* there.
mark_status_plain_save(kind, op, value) ==
    /\ inst # NoInst
    /\ inst.phase = "loaded"
    /\ inst.kind = kind
    /\ Model_save(kind, inst.pk, [inst.rec EXCEPT !.status = value])
    /\ inst' = [inst EXCEPT !.rec = [inst.rec EXCEPT !.status = value,
                                                     !.updated_at = today]]
    /\ resp' = Response(op, kind, inst.pk, "saved", {}, NoData)
    /\ UNCHANGED today

mark_status(kind, op, value) ==
    /\ inst # NoInst
    /\ inst.phase = "loaded"
    /\ inst.kind = kind
    /\ IF Exists(kind, inst.pk)
       THEN /\ save_update_fields(kind, inst.pk, [inst.rec EXCEPT !.status = value],
                                  {"status", "updated_at"})
            /\ inst' = [inst EXCEPT !.rec = [inst.rec EXCEPT !.status = value,
                                                             !.updated_at = today]]
            /\ resp' = Response(op, kind, inst.pk, "saved", {}, NoData)
       ELSE /\ UNCHANGED <<store, next_pk>>
            /\ inst' = [inst EXCEPT !.rec = [inst.rec EXCEPT !.status = value]]
            /\ resp' = Response(op, kind, inst.pk, "DatabaseError", {}, NoData)
    /\ UNCHANGED today

\* The caller lets go of the instance it holds.
release ==
    /\ inst # NoInst
    /\ inst' = NoInst
    /\ resp' = Response("release", inst.kind, inst.pk, "ok", {}, NoData)
    /\ UNCHANGED <<store, next_pk, today>>

mark_as_sold == mark_status("Property", "mark_as_sold", "SOLD")

mark_as_pending == mark_status("Property", "mark_as_pending", "PENDING")

mark_complete == mark_status("Task", "mark_complete", "COMPLETE")

mark_in_progress == mark_status("Task", "mark_in_progress", "IN_PROGRESS")

TaskService_create(rec) == BaseService_create("Task", rec)

PropertyService_create(rec) == BaseService_create("Property", rec)

ClientService_create(rec) == BaseService_create("Client", rec)

CollaboratorService_create(rec) == BaseService_create("Collaborator", rec)

\* --------------------------------------------------------------------- inputs
\* The values requests are drawn from.

Emails == {"a@x.com", "b@x.com"}

SomeText == <<"A", "b">>

SomePhone == <<"5", "5", "5", "1", "2", "3", "4", "5", "6", "7">>

\* The keys a request may name, and the references it may submit.
Pks == {1, 2}

Refs == {NULL, 1, 2}

Ref1 == {NULL, 1}

CollaboratorData(name, email, role) == [name |-> name, email |-> email, role |-> role]

ClientData(name, email, phone, client_type) ==
    [name |-> name, email |-> email, phone |-> phone, client_type |-> client_type]

PropertyData(address, price, property_type, status, listing_date, collaborator, bedrooms, square_feet) ==
    [address |-> address, price |-> price, property_type |-> property_type,
     status |-> status, listing_date |-> listing_date, collaborator |-> collaborator,
     bedrooms |-> bedrooms, square_feet |-> square_feet]

TaskData(title, due_date, status, priority, related_property, client, assigned_to) ==
    [title |-> title, due_date |-> due_date, status |-> status, priority |-> priority,
     related_property |-> related_property, client |-> client,
     assigned_to |-> assigned_to]

\* ---------------------------------------------------------------------- Spec
\* The four tables and their references: whole requests, one after another.

RefCollaborators == {CollaboratorData(SomeText, e, "AGENT") : e \in Emails}

RefClients == {ClientData(SomeText, e, SomePhone, "BUYER") : e \in Emails}

\* Every Property is listed by a Collaborator and every Task assigned to one
\* when it is created, so an absent reference is one a delete has cleared.
RefProperties ==
    {PropertyData(SomeText, 1, "HOUSE", "AVAILABLE", 1, c, <<>>, <<>>) : c \in {1, 2}}

RefTasks ==
    {TaskData(SomeText, 1, "PENDING", "MEDIUM", p, c, a) :
        p \in Refs, c \in Ref1, a \in {1, 2}}

Next ==
    \/ \E d \in RefCollaborators : collaborator_create(d)
    \/ \E pk \in Pks : collaborator_delete(pk)
    \/ \E d \in RefProperties : property_create(d)
    \/ \E pk \in Pks : property_delete(pk)
    \/ \E d \in RefClients : client_create(d)
    \/ \E pk \in Pks : client_delete(pk)
    \/ \E d \in RefTasks : task_create(d)

Spec == Init /\ [][Next]_vars

\* C3: a step that deletes Collaborator c removes that row alone: every other
\* Collaborator and every Client stays as it was, and every Property and every
\* Task stays stored, unchanged but for a reference to c, which becomes absent.
C3_CollaboratorDeleteSetsNull ==
    [][\A c \in DOMAIN collaborators :
          c \notin DOMAIN collaborators' =>
            /\ DOMAIN collaborators' = DOMAIN collaborators \ {c}
            /\ \A k \in DOMAIN collaborators' : collaborators'[k] = collaborators[k]
            /\ clients' = clients
            /\ DOMAIN properties' = DOMAIN properties
            /\ \A p \in DOMAIN properties :
                 /\ properties'[p].collaborator =
                       IF properties[p].collaborator = c THEN NULL
                       ELSE properties[p].collaborator
                 /\ \A f \in DOMAIN properties[p] \ {"collaborator"} :
                       properties'[p][f] = properties[p][f]
            /\ DOMAIN tasks' = DOMAIN tasks
            /\ \A t \in DOMAIN tasks :
                 /\ tasks'[t].assigned_to =
                       IF tasks[t].assigned_to = c THEN NULL ELSE tasks[t].assigned_to
                 /\ \A f \in DOMAIN tasks[t] \ {"assigned_to"} :
                       tasks'[t][f] = tasks[t][f]]_vars

\* A Collaborator has just been deleted, and a Property and a Task that
\* referenced it (each was created with a reference) are stored without one.
C3_Witness ==
    /\ resp.op = "delete" /\ resp.kind = "Collaborator" /\ resp.outcome = "deleted"
    /\ \E p \in DOMAIN properties : properties[p].collaborator = NULL
    /\ \E t \in DOMAIN tasks : tasks[t].assigned_to = NULL

\* C4: a step that deletes Property p deletes exactly the Tasks whose
\* related_property is p, a step that deletes Client k exactly the Tasks whose
\* client is k; the other Tasks stay as they were, and so do all Collaborators.
C4_DeleteCascadesToTasks ==
    [][/\ \A p \in DOMAIN properties :
            p \notin DOMAIN properties' =>
              /\ DOMAIN tasks' = {t \in DOMAIN tasks : tasks[t].related_property # p}
              /\ \A t \in DOMAIN tasks' : tasks'[t] = tasks[t]
              /\ collaborators' = collaborators
       /\ \A k \in DOMAIN clients :
            k \notin DOMAIN clients' =>
              /\ DOMAIN tasks' = {t \in DOMAIN tasks : tasks[t].client # k}
              /\ \A t \in DOMAIN tasks' : tasks'[t] = tasks[t]
              /\ collaborators' = collaborators]_vars

\* A Property has just been deleted; of the two Tasks ever created one is gone
\* and one is stored, and no Client was ever deleted: the Property's delete
\* took the one and left the other.
C4_Witness ==
    /\ resp.op = "delete" /\ resp.kind = "Property" /\ resp.outcome = "deleted"
    /\ next_pk["Task"] = 3
    /\ Cardinality(DOMAIN tasks) = 1
    /\ Cardinality(DOMAIN clients) = next_pk["Client"] - 1

\* ------------------------------------------------------------------ SpecTask
\* Tasks written through every path: TaskForm (task_create, task_update),
\* TaskService.create and TaskService.update on an instance loaded earlier.

OneProperty == PropertyData(SomeText, 1, "HOUSE", "AVAILABLE", 1, NULL, <<>>, <<>>)

OneClient == ClientData(SomeText, "a@x.com", SomePhone, "BUYER")

TaskBase(due_date, related_property, client) ==
    TaskData(SomeText, due_date, "PENDING", "MEDIUM", related_property, client, NULL)

\* Day 0 is before today, day 1 is today, day 2 is after it; key 2 names no
\* Property.
TaskInputs ==
    {TaskBase(d, NULL, NULL) : d \in {0, 1, 2}}
        \cup {TaskBase(1, p, c) : p \in Ref1, c \in Ref1}
        \cup {TaskBase(1, 2, 1), TaskBase(0, 1, 1)}

NextTask ==
    \/ property_create(OneProperty)
    \/ client_create(OneClient)
    \/ \E d \in TaskInputs : task_create(d)
    \/ \E pk \in Pks, d \in TaskInputs : task_update(pk, d)
    \/ \E r \in TaskInputs : TaskService_create(r)

SpecTask == Init /\ [][NextTask]_vars

\* C1: no stored Task has both related_property and client set.
C1_NoTaskWithBothReferences ==
    \A t \in DOMAIN tasks :
        ~(tasks[t].related_property # NULL /\ tasks[t].client # NULL)

\* A TaskForm request has just been answered: saved, or shown again with errors.
TaskFormAnswered(op) ==
    /\ resp'.kind = "Task"
    /\ resp'.op = op
    /\ resp'.outcome \in {"saved", "invalid"}

\* C8: a TaskForm submission with both a Property and a Client reference is
\* refused and writes nothing, with a record-level error when both references
\* name stored rows; a submission with one of them or neither gets no
\* record-level error.
C8_BothReferencesRefused ==
    [][\A op \in {"create", "update"} :
          TaskFormAnswered(op) =>
            LET d == resp'.data
                both == d.related_property # NULL /\ d.client # NULL
            IN  /\ both => (resp'.outcome = "invalid" /\ store' = store)
                /\ (both /\ Exists("Property", d.related_property)
                         /\ Exists("Client", d.client))
                      => NON_FIELD \in resp'.errors
                /\ ~both => NON_FIELD \notin resp'.errors]_vars

\* The last request was a TaskForm create naming a stored Property and a stored
\* Client, refused with the record-level error.
C8_Witness ==
    /\ resp.kind = "Task" /\ resp.op = "create" /\ resp.outcome = "invalid"
    /\ NON_FIELD \in resp.errors
    /\ Exists("Property", resp.data.related_property)
    /\ Exists("Client", resp.data.client)

\* C9: a TaskForm create carries an error on due_date exactly when the due date
\* is before today; a TaskForm update never does, whatever the due date.
C9_DueDateOnlyForNewTasks ==
    [][/\ TaskFormAnswered("create") =>
            (("due_date" \in resp'.errors) <=> (resp'.data.due_date < today))
       /\ TaskFormAnswered("update") => "due_date" \notin resp'.errors]_vars

\* The last request was a TaskForm update that saved a due date before today.
C9_Witness ==
    /\ resp.kind = "Task" /\ resp.op = "update" /\ resp.outcome = "saved"
    /\ resp.data.due_date < today
    /\ tasks[resp.pk].due_date = resp.data.due_date

\* ------------------------------------------------------------------ SpecMark
\* The status helpers, called on an instance loaded earlier: the row may have
\* been rewritten since (the instance is stale) and the instance may carry
\* attributes set but not saved.

MarkProperty(status, price) ==
    PropertyData(SomeText, price, "HOUSE", status, 1, NULL, <<>>, <<>>)

MarkTask(status, due_date) ==
    TaskData(SomeText, due_date, status, "MEDIUM", NULL, NULL, NULL)

MarkKwargs == {[price |-> 3], [due_date |-> 3]}

Property_objects_get(pk) == get_object_or_404("Property", pk)

Task_objects_get(pk) == get_object_or_404("Task", pk)

\* Another request rewrites the row whose instance is held.
Holding(kind) == inst # NoInst /\ inst.kind = kind

property_update_meanwhile ==
    /\ Holding("Property")
    /\ property_update(inst.pk, MarkProperty("AVAILABLE", 2))

task_update_meanwhile ==
    /\ Holding("Task")
    /\ task_update(inst.pk, MarkTask("PENDING", 2))

Property_objects_create(rec) ==
    /\ RowsAllocated < MaxFewRows
    /\ PropertyService_create(rec)

Task_objects_create(rec) ==
    /\ RowsAllocated < MaxFewRows
    /\ TaskService_create(rec)

NextMark ==
    \/ \E st \in PropertyStatus_CHOICES : Property_objects_create(MarkProperty(st, 1))
    \/ \E st \in TaskStatus_CHOICES : Task_objects_create(MarkTask(st, 1))
    \/ \E pk \in Pks : Property_objects_get(pk)
    \/ \E pk \in Pks : Task_objects_get(pk)
    \/ property_update_meanwhile
    \/ task_update_meanwhile
    \/ \E kw \in MarkKwargs : instance_setattr(kw)
    \/ mark_as_sold
    \/ mark_as_pending
    \/ mark_complete
    \/ mark_in_progress
    \/ release

SpecMark == Init /\ [][NextMark]_vars

\* The status each helper sets.
HelperStatus(op) ==
    CASE op = "mark_as_sold" -> "SOLD"
      [] op = "mark_as_pending" -> "PENDING"
      [] op = "mark_complete" -> "COMPLETE"
      [] op = "mark_in_progress" -> "IN_PROGRESS"

\* C6: a status helper that ran on a stored row leaves the row's status at the
\* helper's value and changes nothing else in the store but that row's
\* modification timestamp, whatever the instance held in its other fields.
C6_HelpersWriteOnlyStatus ==
    [][\A op \in {"mark_as_sold", "mark_as_pending", "mark_complete", "mark_in_progress"} :
          (resp'.op = op /\ Exists(resp'.kind, resp'.pk)) =>
            LET kind == resp'.kind
                pk == resp'.pk
                old == Table(kind)
                new == IF kind = "Property" THEN properties' ELSE tasks'
            IN  /\ resp'.outcome = "saved"
                /\ DOMAIN new = DOMAIN old
                /\ new[pk].status = HelperStatus(op)
                /\ \A f \in DOMAIN old[pk] \ {"status", "updated_at"} :
                      new[pk][f] = old[pk][f]
                /\ \A k \in DOMAIN old \ {pk} : new[k] = old[k]
                /\ collaborators' = collaborators
                /\ clients' = clients
                /\ (kind = "Property") => tasks' = tasks
                /\ (kind = "Task") => properties' = properties]_vars

\* mark_as_sold has just run on a Property the instance of which carried a
\* price the row does not have: the row is SOLD and kept its own price.
C6_Witness ==
    /\ resp.op = "mark_as_sold" /\ resp.outcome = "saved"
    /\ inst # NoInst
    /\ properties[inst.pk].status = "SOLD"
    /\ inst.rec.price # properties[inst.pk].price

\* ------------------------------------------------------------------ SpecRace
\* Collaborators and Clients, their emails, and requests that interleave: a
\* form request may pause between its validation and its save, and a caller of
\* the service layer between loading an instance and updating it.

PersonData(kind, email) ==
    IF kind = "Collaborator" THEN CollaboratorData(SomeText, email, "AGENT")
    ELSE ClientData(SomeText, email, SomePhone, "BUYER")

People == {"Collaborator", "Client"}

person_get(kind, pk) == get_object_or_404(kind, pk)

person_update_is_valid(email) ==
    /\ inst # NoInst
    /\ update_is_valid(PersonData(inst.kind, email))

person_create_is_valid(kind, email) == create_is_valid(kind, PersonData(kind, email))

NextRace ==
    \/ \E e \in Emails : collaborator_create(PersonData("Collaborator", e))
    \/ \E e \in Emails : client_create(PersonData("Client", e))
    \/ \E e \in Emails, pk \in Pks : collaborator_update(pk, PersonData("Collaborator", e))
    \/ \E e \in Emails, pk \in Pks : client_update(pk, PersonData("Client", e))
    \/ \E e \in Emails : CollaboratorService_create(PersonData("Collaborator", e))
    \/ \E e \in Emails : ClientService_create(PersonData("Client", e))
    \/ \E pk \in Pks : collaborator_delete(pk)
    \/ \E pk \in Pks : client_delete(pk)
    \/ \E kind \in People, pk \in Pks : person_get(kind, pk)
    \/ \E e \in Emails : person_update_is_valid(e)
    \/ \E kind \in People, e \in Emails : person_create_is_valid(kind, e)
    \/ form_save
    \/ \E e \in Emails : BaseService_update([email |-> e])

SpecRace == Init /\ [][NextRace]_vars

UniqueEmails ==
    /\ \A a, b \in DOMAIN collaborators :
          collaborators[a].email = collaborators[b].email => a = b
    /\ \A a, b \in DOMAIN clients : clients[a].email = clients[b].email => a = b

\* C2: no two Collaborators and no two Clients share an email.  A create (by
\* form or by service) whose email a stored row of the same kind holds fails
\* and leaves every table as it was; one whose email no such row holds stores
\* the row, whether or not a row of the other kind holds that email.
C2_EmailsUnique ==
    /\ UniqueEmails
    /\ [][/\ UniqueEmails'
          /\ \A kind \in People :
               (resp'.kind = kind /\ resp'.op \in {"create", "service_create"}) =>
                 LET tbl == Table(kind)
                     new == IF kind = "Collaborator" THEN collaborators' ELSE clients'
                     taken == \E k \in DOMAIN tbl : tbl[k].email = resp'.data.email
                 IN  /\ taken => /\ resp'.outcome \in {"invalid", "IntegrityError"}
                                 /\ store' = store
                     /\ ~taken => /\ resp'.outcome = "saved"
                                  /\ DOMAIN new = DOMAIN tbl \cup {resp'.pk}
                                  /\ resp'.pk \notin DOMAIN tbl
                                  /\ new[resp'.pk].email = resp'.data.email
                                  /\ \A k \in DOMAIN tbl : new[k] = tbl[k]]_vars

\* Two Collaborators with distinct emails are stored, a Client holds the email
\* of one of them, and a second Client with that email has just been refused.
C2_Witness ==
    /\ Cardinality(DOMAIN collaborators) = 2
    /\ \E c \in DOMAIN collaborators, k \in DOMAIN clients :
          /\ collaborators[c].email = clients[k].email
          /\ resp.data = PersonData("Client", clients[k].email)
    /\ resp.kind = "Client" /\ resp.op = "service_create"
    /\ resp.outcome = "IntegrityError"

\* A key the table has handed out and no row holds: the row was deleted.
Gone(kind, pk) == pk < next_pk[kind] /\ ~Exists(kind, pk)

\* C5: once a row is deleted, no row with its key exists in any later state.
C5_DeletedStaysDeleted ==
    [][\A kind \in Kinds, pk \in Pks : Gone(kind, pk) => Gone(kind, pk)']_vars

\* -------------------------------------------------------------- SpecProperty
\* PropertyForm on create and on update, over prices, listing dates, bedrooms
\* and square feet on both sides of each rule, while the calendar advances.

Absent == <<>>

PropertyBase(price, listing_date, bedrooms, square_feet) ==
    PropertyData(SomeText, price, "HOUSE", "AVAILABLE", listing_date, NULL, bedrooms, square_feet)

PropertyInputs ==
    {PropertyBase(pr, ld, Absent, Absent) : pr \in {-1, 0, 1}, ld \in 0 .. MaxDay + 1}
        \cup {PropertyBase(1, 1, b, Absent) : b \in {<<-1>>, <<0>>}}
        \cup {PropertyBase(1, 1, Absent, sq) : sq \in {<<-1>>, <<0>>}}
        \cup {PropertyBase(0, MaxDay + 1, <<-1>>, <<-1>>)}

property_form_create(data) ==
    /\ next_pk["Property"] <= MaxProperties
    /\ property_create(data)

NextProperty ==
    \/ \E d \in PropertyInputs : property_form_create(d)
    \/ \E pk \in Pks, d \in PropertyInputs : property_update(pk, d)
    \/ Tick

SpecProperty == Init /\ [][NextProperty]_vars

\* C10: PropertyForm, on create and on update, reports an error on price
\* exactly when price <= 0, on listing_date exactly when it is after today, on
\* bedrooms (square_feet) exactly when it is present and negative; it saves
\* only a submission with none of these.
C10_PropertyFormRules ==
    [][\A op \in {"create", "update"} :
          (resp'.kind = "Property" /\ resp'.op = op
              /\ resp'.outcome \in {"saved", "invalid"}) =>
            LET d == resp'.data
                errs == resp'.errors
            IN  /\ ("price" \in errs) <=> (d.price <= 0)
                /\ ("listing_date" \in errs) <=> (d.listing_date > today)
                /\ ("bedrooms" \in errs) <=> (d.bedrooms # Absent /\ d.bedrooms[1] < 0)
                /\ ("square_feet" \in errs)
                      <=> (d.square_feet # Absent /\ d.square_feet[1] < 0)
                /\ (resp'.outcome = "saved") =>
                      /\ d.price > 0
                      /\ d.listing_date <= today
                      /\ d.bedrooms = Absent \/ d.bedrooms[1] >= 0
                      /\ d.square_feet = Absent \/ d.square_feet[1] >= 0]_vars

\* A Property listed today is stored, and an update with a price of 0 and a
\* listing date of tomorrow has just been refused on both fields.
C10_Witness ==
    /\ resp.kind = "Property" /\ resp.op = "update" /\ resp.outcome = "invalid"
    /\ resp.data.price = 0 /\ resp.data.listing_date = today + 1
    /\ {"price", "listing_date"} \subseteq resp.errors
    /\ \E p \in DOMAIN properties :
          properties[p].listing_date = today /\ properties[p].updated_at = today

\* ------------------------------------------------------------------ SpecForm
\* The form path of the four entities, with submissions that pass and
\* submissions that fail validation, as whole requests and as requests that
\* another request interrupts between is_valid() and save().

Padded == <<" ", "A", " ">>

Blank == <<" ">>

FormInputs(kind) ==
    CASE kind = "Collaborator" ->
            {CollaboratorData(Padded, "b@x.com", "MANAGER"),
             CollaboratorData(Blank, "a@x.com", "AGENT"),
             CollaboratorData(SomeText, "b@x.com", "BOGUS")}
      [] kind = "Client" ->
            {ClientData(Padded, "b@x.com", SomePhone, "SELLER"),
             ClientData(SomeText, "a@x.com", <<"5">>, "BUYER")}
      [] kind = "Property" ->
            {PropertyData(Padded, 2, "CONDO", "PENDING", 0, NULL, <<0>>, <<0>>),
             PropertyData(SomeText, 0, "HOUSE", "AVAILABLE", 1, 1, Absent, Absent)}
      [] kind = "Task" ->
            {TaskData(Padded, 2, "IN_PROGRESS", "HIGH", 1, NULL, NULL),
             TaskBase(1, 1, 1),
             TaskBase(0, NULL, NULL)}

form_create(kind, data) ==
    /\ (Form_errors(kind, data, NULL) = {}) => RowsAllocated < MaxFewRows
    /\ create_view(kind, data)

form_update(kind, pk, data) == update_view(kind, pk, data)

form_update_get(kind, pk) == get_object_or_404(kind, pk)

form_update_is_valid(data) ==
    /\ inst # NoInst
    /\ data \in FormInputs(inst.kind)
    /\ update_is_valid(data)

form_create_is_valid(kind, data) ==
    /\ RowsAllocated < MaxFewRows
    /\ create_is_valid(kind, data)

form_create_save ==
    /\ inst # NoInst
    /\ inst.pk = NULL
    /\ RowsAllocated < MaxFewRows
    /\ form_save

form_update_save ==
    /\ inst # NoInst
    /\ inst.pk # NULL
    /\ form_save

NextForm ==
    \/ \E kind \in Kinds : \E d \in FormInputs(kind) : form_create(kind, d)
    \/ \E kind \in Kinds, pk \in Pks : \E d \in FormInputs(kind) : form_update(kind, pk, d)
    \/ \E kind \in Kinds, pk \in Pks : form_update_get(kind, pk)
    \/ \E d \in UNION {FormInputs(kind) : kind \in Kinds} : form_update_is_valid(d)
    \/ \E kind \in Kinds : \E d \in FormInputs(kind) : form_create_is_valid(kind, d)
    \/ form_create_save
    \/ form_update_save
    \/ \E kind \in Kinds, pk \in Pks : delete_view(kind, pk)

SpecForm == Init /\ [][NextForm]_vars

TextFields == {"name", "address", "title", "phone"}

\* The submitted fields as a form hands them on: text fields trimmed.
Submitted(data) ==
    [f \in DOMAIN data |-> IF f \in TextFields THEN Strip(data[f]) ELSE data[f]]

Persists(tbl, pk, fields) ==
    /\ pk \in DOMAIN tbl
    /\ \A f \in DOMAIN fields \ {"updated_at"} : tbl[pk][f] = fields[f]

\* C7: a form create or update that fails validation leaves every table and
\* every key counter as it was; one that saves stores every submitted field
\* in the one row and changes no other row of any table; a save that the
\* database refuses changes nothing.
C7_AllFieldsOrNothing ==
    [][/\ \A kind \in Kinds :
            (resp'.kind = kind /\ resp'.op \in {"create", "update"}) =>
              /\ resp'.errors # {} => resp'.outcome = "invalid"
              /\ resp'.outcome \in {"invalid", "not_found"} =>
                    store' = store /\ next_pk' = next_pk
              /\ resp'.outcome = "saved" =>
                    /\ Persists(Table(kind)', resp'.pk, Submitted(resp'.data))
                    /\ \A k2 \in Kinds :
                          /\ DOMAIN Table(k2)' \subseteq
                                DOMAIN Table(k2) \cup (IF k2 = kind THEN {resp'.pk} ELSE {})
                          /\ \A key \in DOMAIN Table(k2) :
                                (k2 # kind \/ key # resp'.pk) =>
                                    /\ key \in DOMAIN Table(k2)'
                                    /\ Table(k2)'[key] = Table(k2)[key]
       /\ \A kind \in Kinds :
            (resp'.kind = kind /\ resp'.op = "save") =>
              IF resp'.outcome = "saved"
              THEN /\ Persists(Table(kind)', resp'.pk, inst.rec)
                   /\ \A k2 \in Kinds :
                         \A key \in DOMAIN Table(k2) :
                            (k2 # kind \/ key # resp'.pk) =>
                                /\ key \in DOMAIN Table(k2)'
                                /\ Table(k2)'[key] = Table(k2)[key]
              ELSE store' = store /\ next_pk' = next_pk]_vars

\* A Collaborator submitted with a padded name is stored with every field, and
\* an update of a stored Property with a price of 0 has just been refused.
C7_Witness ==
    /\ resp.kind = "Property" /\ resp.op = "update" /\ resp.outcome = "invalid"
    /\ "price" \in resp.errors
    /\ Exists("Property", resp.pk)
    /\ properties[resp.pk].price # resp.data.price
    /\ \E c \in DOMAIN collaborators :
          /\ collaborators[c].name = <<"A">>
          /\ collaborators[c].email = "b@x.com"
          /\ collaborators[c].role = "MANAGER"

\* --------------------------------------------------------------- SpecService
\* Properties written by PropertyForm and by PropertyService, which validates
\* nothing: objects.create(**kwargs) and setattr + save() run no validator, and
\* the columns carry no CHECK constraint (DecimalField, IntegerField).

ServiceProperties ==
    {PropertyBase(pr, 1, b, Absent) : pr \in {-1, 0, 1}, b \in {Absent, <<-1>>}}
        \cup {PropertyBase(1, 1, Absent, <<-1>>)}

ServiceKwargs == {[price |-> -1], [price |-> 2], [bedrooms |-> <<-1>>], [square_feet |-> <<-1>>]}

PropertyService_get_by_id(pk) == get_object_or_404("Property", pk)

PropertyService_update(kwargs) ==
    /\ Holding("Property")
    /\ BaseService_update(kwargs)

PropertyService_create_few(rec) ==
    /\ next_pk["Property"] <= MaxProperties
    /\ PropertyService_create(rec)

ServiceFormInputs ==
    {PropertyBase(pr, 1, b, Absent) : pr \in {0, 1}, b \in {Absent, <<-1>>, <<0>>}}

NextService ==
    \/ \E d \in ServiceFormInputs : property_form_create(d)
    \/ \E pk \in Pks, d \in ServiceFormInputs : property_update(pk, d)
    \/ \E rec \in ServiceProperties : PropertyService_create_few(rec)
    \/ \E pk \in Pks : PropertyService_get_by_id(pk)
    \/ \E kw \in ServiceKwargs : PropertyService_update(kw)
    \/ release

SpecService == Init /\ [][NextService]_vars

\* C11: every stored Property has price >= 0, and bedrooms and square_feet
\* each absent or >= 0, whichever path wrote it.
C11_StoredPropertyNonNegative ==
    \A p \in DOMAIN properties :
        /\ properties[p].price >= 0
        /\ properties[p].bedrooms = Absent \/ properties[p].bedrooms[1] >= 0
        /\ properties[p].square_feet = Absent \/ properties[p].square_feet[1] >= 0

\* C12 (SpecRace): a form create or update of a Collaborator or Client whose
\* email another stored row of the same kind holds ends as a validation
\* failure with an error on email and writes nothing, also when its save comes
\* after another request's save.
C12_DuplicateEmailIsValidationError ==
    [][\A kind \in People :
          (resp'.kind = kind /\ resp'.op \in {"create", "update", "save"}
              /\ resp'.outcome # "not_found") =>
            LET tbl == Table(kind)
                own == IF resp'.op = "save" THEN inst.pk ELSE resp'.pk
                email == IF resp'.op = "save" THEN inst.rec.email ELSE resp'.data.email
                taken == \E k \in DOMAIN tbl \ {own} : tbl[k].email = email
            IN  taken => /\ resp'.outcome = "invalid"
                         /\ "email" \in resp'.errors
                         /\ store' = store]_vars

\* ------------------------------------------------------------------ SpecDash
\* The dashboard figures and Task.is_overdue, read between whole requests
\* while rows come and go and the calendar advances.

objects_count(tbl) == Cardinality(DOMAIN tbl)

objects_filter(tbl, field, value) == {k \in DOMAIN tbl : tbl[k][field] = value}

TaskStatus_CLOSED == {"COMPLETE", "CANCELLED"}

\* An overdue query that counts the Tasks due today.
TaskService_get_overdue_tasks_inclusive ==
    {k \in DOMAIN tasks : tasks[k].due_date <= today /\ tasks[k].status \notin TaskStatus_CLOSED}

\* filter(due_date__lt=date.today()).exclude(status__in=[COMPLETE, CANCELLED])
TaskService_get_overdue_tasks ==
    {k \in DOMAIN tasks : tasks[k].due_date < today /\ tasks[k].status \notin TaskStatus_CLOSED}

DashboardService_get_dashboard_stats ==
    [property_count |-> objects_count(properties),
     client_count |-> objects_count(clients),
     pending_task_count |-> Cardinality(objects_filter(tasks, "status", "PENDING")),
     collaborator_count |-> objects_count(collaborators),
     available_properties |-> Cardinality(objects_filter(properties, "status", "AVAILABLE")),
     overdue_tasks |-> Cardinality(TaskService_get_overdue_tasks)]

home ==
    /\ resp' = Response("home", "none", NULL, "ok", {}, DashboardService_get_dashboard_stats)
    /\ UNCHANGED <<store, next_pk, today, inst>>

\* An is_overdue that is true for a Task due today.
\* An is_overdue that does not look at the status.
Task_is_overdue_any_status(rec) == rec.due_date < today

Task_is_overdue_inclusive(rec) ==
    rec.due_date <= today /\ rec.status \notin TaskStatus_CLOSED

\* self.due_date < date.today() and self.status not in [COMPLETE, CANCELLED]
Task_is_overdue(rec) ==
    rec.due_date < today /\ rec.status \notin TaskStatus_CLOSED

\* Task.objects.get(pk=pk).is_overdue
read_is_overdue(pk) ==
    /\ Exists("Task", pk)
    /\ resp' = Response("is_overdue", "Task", pk, "ok", {},
                        [value |-> Task_is_overdue(tasks[pk])])
    /\ UNCHANGED <<store, next_pk, today, inst>>

DashTasks == {MarkTask(st, d) : st \in TaskStatus_CHOICES, d \in {1, 2}}

DashProperties == {MarkProperty(st, 1) : st \in {"AVAILABLE", "SOLD"}}

dash_create(kind, rec) ==
    /\ RowsAllocated < MaxFewRows
    /\ BaseService_create(kind, rec)

NextDash ==
    \/ \E rec \in DashTasks : dash_create("Task", rec)
    \/ \E rec \in DashProperties : dash_create("Property", rec)
    \/ dash_create("Client", OneClient)
    \/ dash_create("Collaborator", PersonData("Collaborator", "a@x.com"))
    \/ \E pk \in Pks : task_update(pk, MarkTask("COMPLETE", 2))
    \/ \E kind \in Kinds, pk \in Pks : delete_view(kind, pk)
    \/ Tick
    \/ home
    \/ \E pk \in Pks : read_is_overdue(pk)

SpecDash == Init /\ [][NextDash]_vars

\* C13: what get_dashboard_stats returns equals, figure by figure, the number
\* of stored Properties, Clients and Collaborators, of PENDING Tasks, of
\* AVAILABLE Properties, and of Tasks due before today that are neither
\* COMPLETE nor CANCELLED.
C13_DashboardCounts ==
    resp.op = "home" =>
        /\ resp.data.property_count = Cardinality(DOMAIN properties)
        /\ resp.data.client_count = Cardinality(DOMAIN clients)
        /\ resp.data.collaborator_count = Cardinality(DOMAIN collaborators)
        /\ resp.data.pending_task_count =
              Cardinality({t \in DOMAIN tasks : tasks[t].status = "PENDING"})
        /\ resp.data.available_properties =
              Cardinality({p \in DOMAIN properties : properties[p].status = "AVAILABLE"})
        /\ resp.data.overdue_tasks =
              Cardinality({t \in DOMAIN tasks :
                              /\ tasks[t].due_date < today
                              /\ tasks[t].status # "COMPLETE"
                              /\ tasks[t].status # "CANCELLED"})

\* The dashboard is read with an overdue PENDING Task and a PENDING Task due
\* today stored.
C13_Witness ==
    /\ resp.op = "home"
    /\ resp.data.overdue_tasks = 1
    /\ resp.data.pending_task_count = 2
    /\ \E t \in DOMAIN tasks : tasks[t].due_date = today /\ tasks[t].status = "PENDING"
    /\ next_pk["Task"] > 2

\* C16: is_overdue of a Task is true exactly when its due_date is before today
\* and its status is neither COMPLETE nor CANCELLED.
C16_IsOverdue ==
    resp.op = "is_overdue" =>
        (resp.data.value <=>
            /\ tasks[resp.pk].due_date < today
            /\ tasks[resp.pk].status # "COMPLETE"
            /\ tasks[resp.pk].status # "CANCELLED")

\* is_overdue has just been read as false on a PENDING Task due today.
C16_Witness ==
    /\ resp.op = "is_overdue"
    /\ resp.data.value = FALSE
    /\ tasks[resp.pk].due_date = today
    /\ tasks[resp.pk].status = "PENDING"
    /\ today > 1

\* ----------------------------------------------------------------- SpecAvail
\* Property.is_available, read on the instance a caller holds, between the
\* steps of SpecMark.

\* An is_available that is true for every status but SOLD.
Property_is_available_unsold(rec) == rec.status # "SOLD"

\* return self.status == PropertyStatus.AVAILABLE
Property_is_available(rec) == rec.status = "AVAILABLE"

\* instance.is_available; after records the call made just before the read.
read_is_available ==
    /\ Holding("Property")
    /\ resp.op # "is_available"
    /\ resp' = Response("is_available", "Property", inst.pk, "ok", {},
                        [value |-> Property_is_available(inst.rec), after |-> resp.op])
    /\ UNCHANGED <<store, next_pk, today, inst>>

NextAvail ==
    \/ NextMark
    \/ read_is_available

SpecAvail == Init /\ [][NextAvail]_vars

\* C17: is_available of a Property is true exactly when its status is
\* AVAILABLE, and is false when read right after mark_as_sold or
\* mark_as_pending.
C17_IsAvailable ==
    resp.op = "is_available" =>
        /\ resp.data.value <=> (inst.rec.status = "AVAILABLE")
        /\ resp.data.after \in {"mark_as_sold", "mark_as_pending"} => ~resp.data.value

\* is_available has just been read as false right after mark_as_pending wrote
\* PENDING to the stored row.
C17_Witness ==
    /\ resp.op = "is_available"
    /\ resp.data.after = "mark_as_pending"
    /\ resp.data.value = FALSE
    /\ properties[inst.pk].status = "PENDING"

\* ------------------------------------------------------------------ SpecList
\* PropertyService.filter_properties over Properties that differ in status,
\* type, listing date, address and description.

UpperCase ==
    <<"A", "B", "C", "D", "E", "F", "G", "H", "I", "J", "K", "L", "M",
      "N", "O", "P", "Q", "R", "S", "T", "U", "V", "W", "X", "Y", "Z">>

LowerCase ==
    <<"a", "b", "c", "d", "e", "f", "g", "h", "i", "j", "k", "l", "m",
      "n", "o", "p", "q", "r", "s", "t", "u", "v", "w", "x", "y", "z">>

LowerChar(c) ==
    IF \E i \in DOMAIN UpperCase : UpperCase[i] = c
    THEN LowerCase[CHOOSE i \in DOMAIN UpperCase : UpperCase[i] = c]
    ELSE c

Lower(text) == [i \in DOMAIN text |-> LowerChar(text[i])]

\* A search that matches case-sensitively (field__contains).
contains_exact(text, query) ==
    \E i \in 1 .. (Len(text) - Len(query) + 1) :
        SubSeq(text, i, i + Len(query) - 1) = query

\* field__icontains=query
icontains(text, query) ==
    \E i \in 1 .. (Len(text) - Len(query) + 1) :
        SubSeq(Lower(text), i, i + Len(query) - 1) = Lower(query)

\* description = models.TextField(blank=True): '' when nothing was given.
Description(rec) == IF "description" \in DOMAIN rec THEN rec.description ELSE <<>>

\* An optional argument: <<>> is None, <<v>> is the value v.
None == <<>>

\* "if status:" - the argument is neither None nor empty.
Truthy(arg, empty) == arg # None /\ arg[1] # empty

\* The orders in which the database may return the rows keys under ORDER BY
\* rank ascending; rows that tie come in any order.
Orderings(keys, rank) ==
    {seq \in [1 .. Cardinality(keys) -> keys] :
        /\ \A i, j \in DOMAIN seq : i # j => seq[i] # seq[j]
        /\ \A i, j \in DOMAIN seq : i < j => rank[seq[i]] <= rank[seq[j]]}

\* class Meta: ordering = ['-listing_date']
Property_Meta_ordering(k) == 0 - properties[k].listing_date

\* An ordering by listing_date ascending.
Property_ordering_ascending(k) == properties[k].listing_date

Property_ordering(k) == Property_Meta_ordering(k)

PropertyService_filter_properties(status, property_type, search_query) ==
    LET all == DOMAIN properties
        by_status == IF Truthy(status, "")
                     THEN {k \in all : properties[k].status = status[1]} ELSE all
        by_type == IF Truthy(property_type, "")
                   THEN {k \in by_status : properties[k].property_type = property_type[1]}
                   ELSE by_status
    IN  IF Truthy(search_query, <<>>)
        THEN {k \in by_type : \/ icontains(properties[k].address, search_query[1])
                              \/ icontains(Description(properties[k]), search_query[1])}
        ELSE by_type

filter_properties(status, property_type, search_query) ==
    /\ LET found == PropertyService_filter_properties(status, property_type, search_query)
       IN  \E result \in Orderings(found, [k \in found |-> Property_ordering(k)]) :
          resp' = Response("filter_properties", "Property", NULL, "ok", {},
                           [status |-> status, property_type |-> property_type,
                            search_query |-> search_query, result |-> result])
    /\ UNCHANGED <<store, next_pk, today, inst>>

ListedProperty(address, description, property_type, status, listing_date) ==
    LET row == PropertyData(address, 1, property_type, status, listing_date,
                            NULL, Absent, Absent)
    IN  [f \in DOMAIN row \cup {"description"} |->
            IF f = "description" THEN description ELSE row[f]]

ListedProperties ==
    {ListedProperty(SomeText, <<>>, "HOUSE", "AVAILABLE", 1),
     ListedProperty(<<"c">>, <<"a", "B">>, "HOUSE", "AVAILABLE", 0),
     ListedProperty(<<"c">>, <<>>, "CONDO", "AVAILABLE", 1),
     ListedProperty(SomeText, <<>>, "HOUSE", "SOLD", 0),
     ListedProperty(<<"c">>, <<>>, "HOUSE", "SOLD", 1)}

StatusArgs == {None, <<"">>} \cup {<<st>> : st \in PropertyStatus_CHOICES}

TypeArgs == {None, <<"HOUSE">>}

SearchArgs == {None, << <<>> >>, << <<"a", "B">> >>, << <<"b">> >>}

list_form_create ==
    /\ RowsAllocated < MaxFewRows
    /\ property_create(OneProperty)

NextList ==
    \/ \E rec \in ListedProperties : dash_create("Property", rec)
    \/ list_form_create
    \/ \E pk \in Pks : property_delete(pk)
    \/ \E st \in StatusArgs, ty \in TypeArgs, q \in SearchArgs : filter_properties(st, ty, q)

SpecList == Init /\ [][NextList]_vars

Listed(seq) == {seq[i] : i \in DOMAIN seq}

\* C14: filter_properties(status=s), for each of the five statuses s, returns
\* each stored Property of status s once and no other, latest listing_date
\* first.
C14_FilterByStatus ==
    \A s \in PropertyStatus_CHOICES :
        (/\ resp.op = "filter_properties"
         /\ resp.data.status = <<s>>
         /\ resp.data.property_type = None
         /\ resp.data.search_query = None) =>
            LET result == resp.data.result IN
            /\ Listed(result) = {p \in DOMAIN properties : properties[p].status = s}
            /\ \A i, j \in DOMAIN result : i # j => result[i] # result[j]
            /\ \A i, j \in DOMAIN result :
                  i < j => properties[result[i]].listing_date
                              >= properties[result[j]].listing_date

\* filter_properties(status=AVAILABLE) has just returned two Properties, the
\* later listed first though stored second, while a SOLD one is stored too.
C14_Witness ==
    /\ resp.op = "filter_properties"
    /\ resp.data.status = <<"AVAILABLE">>
    /\ resp.data.property_type = None /\ resp.data.search_query = None
    /\ Len(resp.data.result) = 2
    /\ resp.data.result[1] > resp.data.result[2]
    /\ properties[resp.data.result[1]].listing_date
          > properties[resp.data.result[2]].listing_date

\* The text occurs in the field, letter case aside.
Occurs(query, text) ==
    \E i, j \in 1 .. Len(text) : Lower(SubSeq(text, i, j)) = Lower(query)

\* C15: filter_properties returns exactly the Properties that meet every
\* criterion supplied; the search criterion is met when the text occurs, case
\* aside, in the address or in the description; a criterion that is None or
\* empty restricts nothing.
C15_FilterCriteria ==
    resp.op = "filter_properties" =>
        LET a == resp.data
            meets(p) ==
                /\ (a.status # None /\ a.status # <<"">>) =>
                      properties[p].status = a.status[1]
                /\ (a.property_type # None /\ a.property_type # <<"">>) =>
                      properties[p].property_type = a.property_type[1]
                /\ (a.search_query # None /\ a.search_query # << <<>> >>) =>
                      \/ Occurs(a.search_query[1], properties[p].address)
                      \/ Occurs(a.search_query[1], Description(properties[p]))
        IN  /\ Listed(a.result) = {p \in DOMAIN properties : meets(p)}
            /\ Len(a.result) = Cardinality(Listed(a.result))

\* A search for "aB" with status AVAILABLE and type HOUSE has just returned the
\* one Property that holds the text in its description, and left out a SOLD
\* Property that holds it, in another case, in its address.
C15_Witness ==
    /\ resp.op = "filter_properties"
    /\ resp.data.status = <<"AVAILABLE">>
    /\ resp.data.property_type = <<"HOUSE">>
    /\ resp.data.search_query = << <<"a", "B">> >>
    /\ Len(resp.data.result) = 1
    /\ properties[resp.data.result[1]].address = <<"c">>
    /\ Description(properties[resp.data.result[1]]) = <<"a", "B">>
    /\ \E p \in DOMAIN properties :
          properties[p].status = "SOLD" /\ properties[p].address = SomeText

\* -------------------------------------------------------------- SpecTaskList
\* TaskService.filter_tasks over Tasks that differ in due date, priority and
\* status.

\* The priority column holds the strings themselves, and ORDER BY compares
\* them as strings: 'HIGH' < 'LOW' < 'MEDIUM'.
TaskPriority_collation == <<"HIGH", "LOW", "MEDIUM">>

StringRank(value) == CHOOSE i \in DOMAIN TaskPriority_collation : TaskPriority_collation[i] = value

\* class Meta: ordering = ['due_date', '-priority']
Task_Meta_ordering(k) ==
    tasks[k].due_date * (Len(TaskPriority_collation) + 1)
        + (Len(TaskPriority_collation) - StringRank(tasks[k].priority))

TaskService_filter_tasks(status, priority, search_query, assigned_to) ==
    LET all == DOMAIN tasks
        by_status == IF Truthy(status, "")
                     THEN {k \in all : tasks[k].status = status[1]} ELSE all
        by_priority == IF Truthy(priority, "")
                       THEN {k \in by_status : tasks[k].priority = priority[1]}
                       ELSE by_status
        by_search == IF Truthy(search_query, <<>>)
                     THEN {k \in by_priority :
                              \/ icontains(tasks[k].title, search_query[1])
                              \/ icontains(Description(tasks[k]), search_query[1])}
                     ELSE by_priority
    IN  IF Truthy(assigned_to, NULL)
        THEN {k \in by_search : tasks[k].assigned_to = assigned_to[1]}
        ELSE by_search

filter_tasks(status, priority, search_query, assigned_to) ==
    /\ LET found == TaskService_filter_tasks(status, priority, search_query, assigned_to)
       IN  \E result \in Orderings(found, [k \in found |-> Task_Meta_ordering(k)]) :
              resp' = Response("filter_tasks", "Task", NULL, "ok", {},
                               [status |-> status, priority |-> priority,
                                search_query |-> search_query,
                                assigned_to |-> assigned_to, result |-> result])
    /\ UNCHANGED <<store, next_pk, today, inst>>

ListedTask(title, due_date, priority, status) ==
    TaskData(title, due_date, status, priority, NULL, NULL, NULL)

ListedTasks ==
    {ListedTask(SomeText, d, pr, "PENDING") : d \in {1, 2}, pr \in TaskPriority_CHOICES}
        \cup {ListedTask(<<"c">>, 1, "HIGH", "COMPLETE")}

NextTaskList ==
    \/ \E rec \in ListedTasks : dash_create("Task", rec)
    \/ \E pk \in Pks : task_delete(pk)
    \/ \E st \in {None, <<"">>, <<"PENDING">>}, pr \in {None, <<"HIGH">>},
          q \in {None, << <<"a">> >>}, who \in {None, <<1>>} :
            filter_tasks(st, pr, q, who)

SpecTaskList == Init /\ [][NextTaskList]_vars

\* HIGH before MEDIUM before LOW.
PriorityLevel(priority) ==
    CASE priority = "HIGH" -> 3
      [] priority = "MEDIUM" -> 2
      [] priority = "LOW" -> 1

\* C18: a Task list, filtered or not, comes by due_date ascending and, among
\* Tasks of one due_date, HIGH before MEDIUM before LOW.
C18_TaskListOrder ==
    resp.op = "filter_tasks" =>
        LET result == resp.data.result IN
        \A i, j \in DOMAIN result :
            i < j =>
                \/ tasks[result[i]].due_date < tasks[result[j]].due_date
                \/ /\ tasks[result[i]].due_date = tasks[result[j]].due_date
                   /\ PriorityLevel(tasks[result[i]].priority)
                         >= PriorityLevel(tasks[result[j]].priority)

\* ----------------------------------------------------------------- SpecRoute
\* urls.py: which handler answers each named operation, and where the handlers
\* redirect.  A view or a URL name is the pair of its entity and operation
\* (task_create is V("Task", "create")).

V(kind, op) == [kind |-> kind, op |-> op]

Home == V("none", "home")

\* No view ran; no redirect was made.
NoView == V("none", "none")

path(route, view, name) == [route |-> route, view |-> view, name |-> name]

Operations == {"list", "detail", "create", "update", "delete"}

urlpatterns ==
    <<path("", Home, Home),
      path("properties/", V("Property", "list"), V("Property", "list")),
      path("properties/create/", V("Property", "create"), V("Property", "create")),
      path("properties/<int:pk>/", V("Property", "detail"), V("Property", "detail")),
      path("properties/<int:pk>/update/", V("Property", "update"), V("Property", "update")),
      path("properties/<int:pk>/delete/", V("Property", "delete"), V("Property", "delete")),
      path("clients/", V("Client", "list"), V("Client", "list")),
      path("clients/new/", V("Client", "create"), V("Client", "create")),
      path("clients/<int:pk>/", V("Client", "detail"), V("Client", "detail")),
      path("clients/<int:pk>/edit/", V("Client", "update"), V("Client", "update")),
      path("clients/<int:pk>/delete/", V("Client", "delete"), V("Client", "delete")),
      path("properties/", V("Property", "list"), V("Property", "list")),
      path("properties/new/", V("Property", "create"), V("Property", "create")),
      path("properties/<int:pk>/", V("Property", "detail"), V("Property", "detail")),
      path("properties/<int:pk>/edit/", V("Property", "update"), V("Property", "update")),
      path("properties/<int:pk>/delete/", V("Property", "delete"), V("Property", "delete")),
      path("clients/", V("Client", "list"), V("Client", "list")),
      path("clients/new/", V("Client", "create"), V("Client", "create")),
      path("clients/<int:pk>/", V("Client", "detail"), V("Client", "detail")),
      path("clients/<int:pk>/edit/", V("Client", "update"), V("Client", "update")),
      path("clients/<int:pk>/delete/", V("Client", "delete"), V("Client", "delete")),
      path("tasks/", Home, V("Task", "list")),
      path("collaborators/", Home, V("Collaborator", "list")),
      path("properties/", V("Property", "list"), V("Property", "list")),
      path("properties/new/", V("Property", "create"), V("Property", "create")),
      path("properties/<int:pk>/", V("Property", "detail"), V("Property", "detail")),
      path("properties/<int:pk>/edit/", V("Property", "update"), V("Property", "update")),
      path("properties/<int:pk>/delete/", V("Property", "delete"), V("Property", "delete")),
      path("clients/", V("Client", "list"), V("Client", "list")),
      path("clients/new/", V("Client", "create"), V("Client", "create")),
      path("clients/<int:pk>/", V("Client", "detail"), V("Client", "detail")),
      path("clients/<int:pk>/edit/", V("Client", "update"), V("Client", "update")),
      path("clients/<int:pk>/delete/", V("Client", "delete"), V("Client", "delete")),
      path("tasks/", Home, V("Task", "list")),
      path("collaborators/", Home, V("Collaborator", "list"))>>

\* reverse(name): the routes that carry the name; none is NoReverseMatch.
reverse(name) == {urlpatterns[i].route : i \in {j \in DOMAIN urlpatterns : urlpatterns[j].name = name}}

\* The view of the first pattern that matches the route.
resolve(route) ==
    LET first == CHOOSE i \in DOMAIN urlpatterns :
                    /\ urlpatterns[i].route = route
                    /\ \A j \in DOMAIN urlpatterns : urlpatterns[j].route = route => i <= j
    IN  urlpatterns[first].view

\* redirect(name, ...): 302 to the named URL, or NoReverseMatch raised after
\* whatever the handler has already done.
redirect(name) == IF reverse(name) = {} THEN "NoReverseMatch" ELSE "302"

Answer(op, name, view, pk, outcome, errors, to, input, context) ==
    Response(op, name.kind, pk, outcome, errors,
             [name |-> name, view |-> view, to |-> to, input |-> input, context |-> context])

NoContext == {}

\* The handler view answers a request made for the operation name.
handle(op, name, view, pk, input) ==
    CASE view = Home ->
            /\ resp' = Answer(op, name, view, pk, "200", {}, NoView, input,
                              {DashboardService_get_dashboard_stats})
            /\ UNCHANGED <<store, next_pk>>
      [] view.op = "list" ->
            /\ resp' = Answer(op, name, view, pk, "200", {}, NoView, input,
                              DOMAIN Table(view.kind))
            /\ UNCHANGED <<store, next_pk>>
      [] view.op = "detail" ->
            /\ resp' = Answer(op, name, view, pk,
                              IF Exists(view.kind, pk) THEN "200" ELSE "404",
                              {}, NoView, input, NoContext)
            /\ UNCHANGED <<store, next_pk>>
      [] view.op = "create" ->
            LET errors == Form_errors(view.kind, input, NULL) IN
            IF errors = {}
            THEN /\ Model_save(view.kind, NULL, Instance(Form_cleaned(view.kind, input), today))
                 /\ resp' = Answer(op, name, view, next_pk[view.kind],
                                   redirect(V(view.kind, "detail")), {},
                                   V(view.kind, "detail"), input, NoContext)
            ELSE /\ UNCHANGED <<store, next_pk>>
                 /\ resp' = Answer(op, name, view, NULL, "200", errors, NoView, input, NoContext)
      [] view.op = "update" ->
            IF ~Exists(view.kind, pk)
            THEN /\ UNCHANGED <<store, next_pk>>
                 /\ resp' = Answer(op, name, view, pk, "404", {}, NoView, input, NoContext)
            ELSE LET errors == Form_errors(view.kind, input, pk) IN
                 IF errors = {}
                 THEN /\ Model_save(view.kind, pk,
                                    Instance(Form_cleaned(view.kind, input), today))
                      /\ resp' = Answer(op, name, view, pk,
                                        redirect(V(view.kind, "detail")), {},
                                        V(view.kind, "detail"), input, NoContext)
                 ELSE /\ UNCHANGED <<store, next_pk>>
                      /\ resp' = Answer(op, name, view, pk, "200", errors, NoView, input,
                                        NoContext)
      [] view.op = "delete" ->
            IF ~Exists(view.kind, pk)
            THEN /\ UNCHANGED <<store, next_pk>>
                 /\ resp' = Answer(op, name, view, pk, "404", {}, NoView, input, NoContext)
            ELSE /\ Model_delete(view.kind, pk)
                 /\ UNCHANGED next_pk
                 /\ resp' = Answer(op, name, view, pk, redirect(V(view.kind, "list")), {},
                                   V(view.kind, "list"), input, NoContext)

Inserts(kind, operation, input) ==
    operation = "create" /\ Form_errors(kind, input, NULL) = {}

\* A client follows the URL named for the operation (reverse, then the
\* resolver, then the handler).
url_request(kind, operation, pk, input) ==
    LET name == V(kind, operation) IN
    /\ Inserts(kind, operation, input) => RowsAllocated < MaxFewRows
    /\ IF reverse(name) = {}
       THEN /\ resp' = Answer("request", name, NoView, pk, "NoReverseMatch", {}, NoView, input,
                              NoContext)
            /\ UNCHANGED <<store, next_pk>>
       ELSE \E route \in reverse(name) : handle("request", name, resolve(route), pk, input)
    /\ UNCHANGED <<today, inst>>

\* The handler is called as a function, whatever urls.py says.
view_call(kind, operation, pk, input) ==
    /\ Inserts(kind, operation, input) => RowsAllocated < MaxFewRows
    /\ handle("call", V(kind, operation), V(kind, operation), pk, input)
    /\ UNCHANGED <<today, inst>>

\* What a request for the operation carries: a key where the URL has one, a
\* submission where the handler reads one.
RoutePks(operation) == IF operation \in {"list", "create"} THEN {NULL} ELSE Pks

RouteInputs(kind, operation) ==
    IF operation \in {"create", "update"} THEN FormInputs(kind) ELSE {NoData}

NextRoute ==
    \/ \E kind \in Kinds, operation \in Operations :
          \E pk \in RoutePks(operation), input \in RouteInputs(kind, operation) :
              url_request(kind, operation, pk, input)
    \/ \E kind \in Kinds, operation \in Operations :
          \E pk \in RoutePks(operation), input \in RouteInputs(kind, operation) :
              view_call(kind, operation, pk, input)

SpecRoute == Init /\ [][NextRoute]_vars

\* C19: each of the five operations of each of the four entities is reachable
\* by its URL name and is answered by that entity's own handler; a list
\* request is answered with the entity's collection.
C19_OwnHandler ==
    resp.op = "request" =>
        /\ resp.outcome # "NoReverseMatch"
        /\ resp.data.view = resp.data.name
        /\ resp.data.name.op = "list" => resp.data.context = DOMAIN Table(resp.kind)

\* C20: a create or update with valid input stores the record and answers with
\* a redirect to its detail view; a delete of a stored record removes it and
\* answers with a redirect to the list view; no request that changed the
\* store ends otherwise than in its redirect.
C20_WriteThenRedirect ==
    [][\A kind \in Kinds :
          (resp'.op \in {"request", "call"} /\ resp'.kind = kind) =>
            LET operation == resp'.data.name.op
                input == resp'.data.input
                pk == resp'.pk
            IN  /\ (operation = "create" /\ Form_errors(kind, input, NULL) = {}) =>
                      /\ resp'.outcome = "302"
                      /\ resp'.data.to = V(kind, "detail")
                      /\ pk \in DOMAIN Table(kind)' \ DOMAIN Table(kind)
                /\ (operation = "update" /\ Exists(kind, pk)
                        /\ Form_errors(kind, input, pk) = {}) =>
                      /\ resp'.outcome = "302"
                      /\ resp'.data.to = V(kind, "detail")
                      /\ Persists(Table(kind)', pk, Submitted(input))
                /\ (operation = "delete" /\ Exists(kind, pk)) =>
                      /\ resp'.outcome = "302"
                      /\ resp'.data.to = V(kind, "list")
                      /\ pk \notin DOMAIN Table(kind)'
                /\ store' # store => resp'.outcome = "302"]_vars

\* ---------------------------------------------------------------- SpecMethod
\* The handlers under both request methods: GET displays (a list, a record, a
\* form, a confirmation page), POST submits or confirms.

Methods == {"GET", "POST"}

\* A delete that does not look at the request method.
confirmed_any(method) == TRUE

\* if request.method == 'POST':
confirmed(method) == method = "POST"

\* One handler, called with a request of the given method; resp.op records
\* the method.
view_request(method, kind, operation, pk, input) ==
    LET view == V(kind, operation) IN
    /\ (confirmed(method) /\ Inserts(kind, operation, input)) => RowsAllocated < MaxFewRows
    /\ IF confirmed(method) \/ operation \in {"list", "detail"}
       THEN handle(method, view, view, pk, input)
       ELSE /\ resp' = Answer(method, view, view, pk,
                              IF operation = "create" \/ Exists(kind, pk)
                              THEN "200" ELSE "404",
                              {}, NoView, input, NoContext)
            /\ UNCHANGED <<store, next_pk>>
    /\ UNCHANGED <<today, inst>>

\* views.home, whatever the method.
home_request(method) ==
    /\ handle(method, Home, Home, NULL, NoData)
    /\ UNCHANGED <<today, inst>>

NextMethod ==
    \/ \E method \in Methods, kind \in Kinds, operation \in Operations :
          \E pk \in RoutePks(operation), input \in RouteInputs(kind, operation) :
              view_request(method, kind, operation, pk, input)
    \/ \E method \in Methods : home_request(method)

SpecMethod == Init /\ [][NextMethod]_vars

\* C21: a delete request removes the record when it is a POST; a GET to the
\* delete operation, and every list, detail, dashboard and form-display (GET
\* create, GET update) request, leaves every table unchanged.
C21_OnlyConfirmedDeleteRemoves ==
    [][resp'.op \in Methods =>
          LET operation == resp'.data.view.op IN
          /\ (resp'.op = "GET" \/ operation \in {"list", "detail", "home"}) =>
                store' = store /\ next_pk' = next_pk
          /\ \A kind \in Kinds :
                (resp'.op = "POST" /\ operation = "delete" /\ resp'.kind = kind
                    /\ resp'.pk \in DOMAIN Table(kind)) =>
                      resp'.pk \notin DOMAIN Table(kind)']_vars

\* A GET to the delete operation of a stored Property has just shown the
\* confirmation page, and the Property and a Task that refers to it are still
\* stored.
C21_Witness ==
    /\ resp.op = "GET"
    /\ resp.data.view = V("Property", "delete")
    /\ resp.outcome = "200"
    /\ resp.pk \in DOMAIN properties
    /\ \E t \in DOMAIN tasks : tasks[t].related_property = resp.pk

\* C22: a detail, update or delete request, GET or POST, whose key no stored
\* record has ends in a 404 and changes no table.
C22_NotFoundChangesNothing ==
    [][\A kind \in Kinds :
          (resp'.op \in Methods /\ resp'.kind = kind
              /\ resp'.data.view.op \in {"detail", "update", "delete"}
              /\ resp'.pk \notin DOMAIN Table(kind)) =>
            /\ resp'.outcome = "404"
            /\ store' = store
            /\ next_pk' = next_pk]_vars

\* A POST to the update operation with a valid submission has just ended in a
\* 404 for the key of a Collaborator deleted earlier, while a Property is
\* stored.
C22_Witness ==
    /\ resp.op = "POST"
    /\ resp.data.view = V("Collaborator", "update")
    /\ resp.outcome = "404"
    /\ resp.pk < next_pk["Collaborator"]
    /\ resp.pk \notin DOMAIN collaborators
    /\ properties # <<>>
    /\ Form_errors("Collaborator", resp.data.input, NULL) = {}

\* ---------------------------------------------------------------- SpecChoice
\* The enumerated fields of the four forms, over every declared value and
\* values outside the declared sets.

Undeclared == {"", "BOGUS", "pending"}

ChoiceInputs(kind) ==
    CASE kind = "Collaborator" ->
            {CollaboratorData(SomeText, "a@x.com", r) :
                r \in CollaboratorRole_CHOICES \cup Undeclared}
      [] kind = "Property" ->
            {PropertyData(SomeText, 1, ty, "AVAILABLE", 1, NULL, Absent, Absent) :
                ty \in PropertyType_CHOICES \cup Undeclared}
              \cup {PropertyData(SomeText, 1, "HOUSE", st, 1, NULL, Absent, Absent) :
                      st \in PropertyStatus_CHOICES \cup Undeclared}
              \cup {PropertyData(SomeText, 1, "BOGUS", "BOGUS", 1, NULL, Absent, Absent)}
      [] kind = "Client" ->
            {ClientData(SomeText, "a@x.com", SomePhone, ty) :
                ty \in ClientType_CHOICES \cup Undeclared}
      [] kind = "Task" ->
            {TaskData(SomeText, 1, st, "MEDIUM", NULL, NULL, NULL) :
                st \in TaskStatus_CHOICES \cup Undeclared}
              \cup {TaskData(SomeText, 1, "PENDING", pr, NULL, NULL, NULL) :
                      pr \in TaskPriority_CHOICES \cup Undeclared}
              \cup {TaskData(SomeText, 1, "BOGUS", "BOGUS", NULL, NULL, NULL)}

field_create(kind, data) ==
    /\ (Form_errors(kind, data, NULL) = {}) => RowsAllocated < MaxFieldRows
    /\ create_view(kind, data)

NextChoice ==
    \/ \E kind \in Kinds : \E d \in ChoiceInputs(kind) : field_create(kind, d)
    \/ \E kind \in Kinds, pk \in Pks : \E d \in ChoiceInputs(kind) : form_update(kind, pk, d)

SpecChoice == Init /\ [][NextChoice]_vars

\* The enumerated fields of each entity with their declared sets.
Declared(kind) ==
    CASE kind = "Collaborator" -> {<<"role", CollaboratorRole_CHOICES>>}
      [] kind = "Property" -> {<<"property_type", PropertyType_CHOICES>>,
                               <<"status", PropertyStatus_CHOICES>>}
      [] kind = "Client" -> {<<"client_type", ClientType_CHOICES>>}
      [] kind = "Task" -> {<<"status", TaskStatus_CHOICES>>,
                           <<"priority", TaskPriority_CHOICES>>}

\* C23: a form create or update reports an error on an enumerated field
\* exactly when the submitted value is outside the field's declared set, and
\* then writes nothing; every row a form has written holds declared values.
C23_DeclaredValuesOnly ==
    [][\A kind \in Kinds :
          /\ (resp'.kind = kind /\ resp'.op \in {"create", "update"}
                  /\ resp'.outcome \in {"saved", "invalid"}) =>
                \A ef \in Declared(kind) :
                    /\ (ef[1] \in resp'.errors) <=> (resp'.data[ef[1]] \notin ef[2])
                    /\ resp'.data[ef[1]] \notin ef[2] =>
                          /\ resp'.outcome = "invalid"
                          /\ store' = store
          /\ \A k \in DOMAIN Table(kind)' :
                \A ef \in Declared(kind) : Table(kind)'[k][ef[1]] \in ef[2]]_vars

\* An update of a stored Task to status CANCELLED and one with priority
\* "pending" : the first is stored, the second has just been refused on priority.
C23_Witness ==
    /\ resp.kind = "Task" /\ resp.op = "update" /\ resp.outcome = "invalid"
    /\ resp.data.priority = "pending"
    /\ resp.errors = {"priority"}
    /\ resp.pk \in DOMAIN tasks
    /\ tasks[resp.pk].status = "CANCELLED"

\* ------------------------------------------------------------------ SpecText
\* Names and titles with and without surrounding whitespace, through
\* CollaboratorForm, ClientForm and TaskForm.

TextKinds == {"Collaborator", "Client", "Task"}

Texts == {<<>>, <<" ">>, <<" ", " ">>, <<"A">>, <<" ", "A">>, <<"A", " ">>,
          <<" ", "A", " ", "b", " ">>}

TextInputs(kind) ==
    CASE kind = "Collaborator" -> {CollaboratorData(t, "a@x.com", "AGENT") : t \in Texts}
      [] kind = "Client" -> {ClientData(t, "a@x.com", SomePhone, "BUYER") : t \in Texts}
      [] kind = "Task" ->
            {TaskData(t, 1, "PENDING", "MEDIUM", NULL, NULL, NULL) : t \in Texts}

NextText ==
    \/ \E kind \in TextKinds : \E d \in TextInputs(kind) : field_create(kind, d)
    \/ \E kind \in TextKinds, pk \in Pks : \E d \in TextInputs(kind) : form_update(kind, pk, d)

SpecText == Init /\ [][NextText]_vars

TextField(kind) == IF kind = "Task" THEN "title" ELSE "name"

\* The text between the first and the last character that is not a space.
Core(s) ==
    LET solid == {i \in 1..Len(s) : s[i] # " "} IN
    IF solid = {} THEN <<>>
    ELSE SubSeq(s, CHOOSE i \in solid : \A j \in solid : i <= j,
                   CHOOSE i \in solid : \A j \in solid : j <= i)

Trimmed(s) == s # <<>> /\ s[1] # " " /\ s[Len(s)] # " "

\* C24: a form create or update reports an error on name (title for a Task)
\* exactly when the submitted text has no character other than whitespace, and then
\* writes nothing; an accepted text is stored without its surrounding
\* whitespace, and no stored name or title starts or ends with whitespace.
C24_StoredTrimmed ==
    [][\A kind \in TextKinds :
          LET f == TextField(kind) IN
          /\ (resp'.kind = kind /\ resp'.op \in {"create", "update"}
                  /\ resp'.outcome \in {"saved", "invalid"}) =>
                /\ (f \in resp'.errors) <=> (Core(resp'.data[f]) = <<>>)
                /\ f \in resp'.errors => store' = store
                /\ resp'.outcome = "saved" =>
                      Table(kind)'[resp'.pk][f] = Core(resp'.data[f])
          /\ \A k \in DOMAIN Table(kind)' : Trimmed(Table(kind)'[k][f])]_vars

\* A Task submitted with the title " A b " is stored as "A b", and an update
\* of it with a title of two spaces has been refused.
C24_Witness ==
    /\ resp.pk \in DOMAIN tasks
    /\ tasks[resp.pk].title = <<"A", " ", "b">>
    /\ resp.kind = "Task" /\ resp.op = "update" /\ resp.outcome = "invalid"
    /\ resp.data.title = <<" ", " ">>
    /\ resp.errors = {"title"}

\* ----------------------------------------------------------------- SpecPhone
\* Phones of ClientForm by length and by number of digits.

Phone6 == <<"1", "2", "3", "4", "5", "6">>

Phone9 == <<"5", "5", "5", "1", "2", "3", "4", "5", "6">>

PhoneFormatted == <<"(", "5", "5", "5", ")", " ", "1", "2", "3", "-", "4", "5", "6", "7">>

PhoneFormatted9 == <<"(", "5", "5", "5", ")", " ", "1", "2", "3", "-", "4", "5", "6">>

Phone20 ==
    <<"5", "5", "5", "1", "2", "3", "4", "5", "6", "7",
      "5", "5", "5", "1", "2", "3", "4", "5", "6", "7">>

PhoneDashes ==
    <<"5", "5", "5", "-", "1", "2", "3", "-", "4", "5",
      "6", "-", "-", "-", "-", "-", "-", "-", "-", "-">>

Phone21 ==
    <<"5", "5", "5", "1", "2", "3", "4", "5", "6", "7",
      "5", "5", "5", "1", "2", "3", "4", "5", "6", "7", "8">>

PhonePadded == <<" ", "5", "5", "5", "1", "2", "3", "4", "5", "6", "7", " ">>

PhoneLetters == <<"a", "b", "c", "d", "e", "f", "g", "h", "i", "j">>

PhonePadded21 ==
    <<" ", "5", "5", "5", "1", "2", "3", "4", "5", "6",
      "7", "5", "5", "5", "1", "2", "3", "4", "5", "6", " ">>

Phones == {<<>>, <<" ">>, SomePhone, Phone6, Phone9, PhoneFormatted, PhoneFormatted9,
           Phone20, PhoneDashes, Phone21, PhonePadded, PhoneLetters, PhonePadded21}

PhoneInputs == {ClientData(SomeText, "a@x.com", ph, "BUYER") : ph \in Phones}

NextPhone ==
    \/ \E d \in PhoneInputs : field_create("Client", d)
    \/ \E pk \in Pks : \E d \in PhoneInputs : form_update("Client", pk, d)

SpecPhone == Init /\ [][NextPhone]_vars

DigitCount(s) == Cardinality({i \in 1..Len(s) : s[i] \in Digits})

\* C25: for a submitted phone of at most 20 characters, a ClientForm create
\* or update reports an error on phone exactly when the phone has fewer than
\* 10 digit characters; a refused submission writes nothing and an accepted
\* one is saved.
C25_PhoneDigits ==
    [][(resp'.kind = "Client" /\ resp'.op \in {"create", "update"}
            /\ resp'.outcome \in {"saved", "invalid"}
            /\ Len(resp'.data.phone) <= 20) =>
          /\ ("phone" \in resp'.errors) <=> (DigitCount(resp'.data.phone) < 10)
          /\ "phone" \in resp'.errors => store' = store
          /\ DigitCount(resp'.data.phone) >= 10 => resp'.errors \subseteq {"email"}]_vars

\* A Client stored with the phone "(555) 123-4567", and an update of it to
\* "123456" refused.
C25_Witness ==
    /\ resp.kind = "Client" /\ resp.op = "update" /\ resp.outcome = "invalid"
    /\ resp.data.phone = Phone6
    /\ resp.errors = {"phone"}
    /\ resp.pk \in DOMAIN clients
    /\ clients[resp.pk].phone = PhoneFormatted

\* ---------------------------------------------------------------- SpecClient
\* The buyer and seller views of the Clients, with Clients written through
\* ClientForm and through ClientService.create.

\* self.client_type in [ClientType.BUYER, ClientType.BOTH]
Client_is_buyer(rec) == rec.client_type \in {"BUYER", "BOTH"}

\* self.client_type in [ClientType.SELLER, ClientType.BOTH]
Client_is_seller(rec) == rec.client_type \in {"SELLER", "BOTH"}

\* filter(Q(client_type='BUYER') | Q(client_type='BOTH'))
ClientService_get_buyers ==
    {k \in DOMAIN clients : clients[k].client_type = "BUYER" \/ clients[k].client_type = "BOTH"}

\* filter(Q(client_type='SELLER') | Q(client_type='BOTH'))
ClientService_get_sellers ==
    {k \in DOMAIN clients : clients[k].client_type = "SELLER" \/ clients[k].client_type = "BOTH"}

get_buyers_and_sellers ==
    /\ resp' = Response("get_buyers", "Client", NULL, "ok", {},
                        [buyers |-> ClientService_get_buyers,
                         sellers |-> ClientService_get_sellers,
                         clients |-> DOMAIN clients])
    /\ UNCHANGED <<store, next_pk, today, inst>>

\* Client.objects.get(pk=pk).is_buyer, .is_seller
read_is_buyer(pk) ==
    /\ Exists("Client", pk)
    /\ resp' = Response("is_buyer", "Client", pk, "ok", {},
                        [is_buyer |-> Client_is_buyer(clients[pk]),
                         is_seller |-> Client_is_seller(clients[pk]),
                         client_type |-> clients[pk].client_type])
    /\ UNCHANGED <<store, next_pk, today, inst>>

\* A client type no ClientType constant declares.
OtherClientType == "INVESTOR"

ClientFormInputs ==
    {ClientData(SomeText, em, SomePhone, ty) :
        em \in Emails, ty \in ClientType_CHOICES \cup {OtherClientType}}

client_form_create(data) == form_create("Client", data)

client_service_create(rec) ==
    /\ RowsAllocated < MaxFewRows
    /\ ClientService_create(rec)

NextClient ==
    \/ \E d \in ClientFormInputs : client_form_create(d)
    \/ \E pk \in Pks : \E d \in ClientFormInputs : client_update(pk, d)
    \/ \E rec \in ClientFormInputs : client_service_create(rec)
    \/ \E pk \in Pks : client_delete(pk)
    \/ get_buyers_and_sellers
    \/ \E pk \in Pks : read_is_buyer(pk)

SpecClient == Init /\ [][NextClient]_vars

\* is_buyer and is_seller follow the type, and the two queries return the
\* Clients with is_buyer and with is_seller.
BuyersSellersExact ==
    /\ resp.op = "is_buyer" =>
          /\ resp.data.is_buyer <=> resp.data.client_type \in {"BUYER", "BOTH"}
          /\ resp.data.is_seller <=> resp.data.client_type \in {"SELLER", "BOTH"}
    /\ resp.op = "get_buyers" =>
          /\ resp.data.buyers = {k \in DOMAIN clients : Client_is_buyer(clients[k])}
          /\ resp.data.sellers = {k \in DOMAIN clients : Client_is_seller(clients[k])}
          /\ \A k \in DOMAIN clients :
                clients[k].client_type = "BOTH" =>
                    k \in resp.data.buyers \cap resp.data.sellers

\* C26: is_buyer holds exactly for the types BUYER and BOTH, is_seller exactly
\* for SELLER and BOTH, get_buyers and get_sellers return exactly the Clients
\* with is_buyer and is_seller, a BOTH Client is in both results, and every
\* stored Client is in at least one of them.
C26_BuyersAndSellers ==
    /\ BuyersSellersExact
    /\ resp.op = "get_buyers" =>
          resp.data.clients \subseteq resp.data.buyers \cup resp.data.sellers

\* --------------------------------------------------------------- SpecOverdue
\* TaskService.get_overdue_tasks beside Task.is_overdue, over Tasks of every
\* status (one of them outside TaskStatus) due today and later, as days pass.

OverdueTasks == {MarkTask(st, d) : st \in TaskStatus_CHOICES \cup {"ON_HOLD"}, d \in {1, 2}}

get_overdue_tasks ==
    /\ resp' = Response("get_overdue_tasks", "Task", NULL, "ok", {},
                        [result |-> TaskService_get_overdue_tasks])
    /\ UNCHANGED <<store, next_pk, today, inst>>

NextOverdue ==
    \/ \E rec \in OverdueTasks : dash_create("Task", rec)
    \/ \E pk \in Pks : task_update(pk, MarkTask("COMPLETE", 2))
    \/ \E pk \in Pks : task_delete(pk)
    \/ Tick
    \/ home
    \/ get_overdue_tasks

SpecOverdue == Init /\ [][NextOverdue]_vars

\* C27: get_overdue_tasks returns the Tasks whose is_overdue is true and no
\* other, and the dashboard's overdue_tasks is the number of those Tasks.
C27_OverdueQueryIsProperty ==
    /\ resp.op = "get_overdue_tasks" =>
          resp.data.result = {k \in DOMAIN tasks : Task_is_overdue(tasks[k])}
    /\ resp.op = "home" =>
          resp.data.overdue_tasks =
              Cardinality({k \in DOMAIN tasks : Task_is_overdue(tasks[k])})

\* The query has returned Task 1 alone while Task 2, also due before today,
\* is CANCELLED.
C27_Witness ==
    /\ resp.op = "get_overdue_tasks"
    /\ resp.data.result = {1}
    /\ 2 \in DOMAIN tasks
    /\ tasks[2].due_date < today
    /\ tasks[2].status = "CANCELLED"

\* ------------------------------------------------------------------- SpecRef
\* References between the tables while creates, updates and deletes of
\* different requests interleave.  A create or update runs in two steps
\* (is_valid, then save), and so does a delete: Model.delete() first collects
\* the referrers of the row, then applies their on_delete and deletes the row
\* in one transaction, at the end of which the database checks its foreign
\* keys.  links holds the rows of the two ManyToMany tables of Client.

LinkFields == {"properties_interested", "properties_owned"}

Link(client, property, field) == [client |-> client, property |-> property, field |-> field]

\* The foreign-key constraints of the schema on candidate tables.
ForeignKeysHold(c, p, cl, t, ls) ==
    /\ \A k \in DOMAIN p : p[k].collaborator \in DOMAIN c \cup {NULL}
    /\ \A k \in DOMAIN t :
          /\ t[k].related_property \in DOMAIN p \cup {NULL}
          /\ t[k].client \in DOMAIN cl \cup {NULL}
          /\ t[k].assigned_to \in DOMAIN c \cup {NULL}
    /\ \A l \in ls : l.client \in DOMAIN cl /\ l.property \in DOMAIN p

\* client.properties_interested.add(property), client.properties_owned.add(property)
\* with instances the caller holds: an INSERT into the link table.
links_add(client, property, field) ==
    /\ IF Exists("Client", client) /\ Exists("Property", property)
       THEN /\ links' = links \cup {Link(client, property, field)}
            /\ resp' = Response("add", "Client", client, "added", {}, NoData)
       ELSE /\ links' = links
            /\ resp' = Response("add", "Client", client, "IntegrityError", {}, NoData)
    /\ UNCHANGED <<collaborators, properties, clients, tasks, next_pk, today, inst>>

\* Collector.collect: the referrers of the row as they are now.
Collector_collect(kind, pk) ==
    [properties |-> {k \in DOMAIN properties :
                        kind = "Collaborator" /\ properties[k].collaborator = pk},
     tasks |-> {k \in DOMAIN tasks :
                   CASE kind = "Collaborator" -> tasks[k].assigned_to = pk
                     [] kind = "Property" -> tasks[k].related_property = pk
                     [] kind = "Client" -> tasks[k].client = pk
                     [] OTHER -> FALSE},
     links |-> {l \in links :
                   CASE kind = "Client" -> l.client = pk
                     [] kind = "Property" -> l.property = pk
                     [] OTHER -> FALSE}]

\* obj = get_object_or_404(...); obj.delete() up to the end of the collection.
delete_collect(kind, pk) ==
    /\ inst = NoInst
    /\ IF Exists(kind, pk)
       THEN /\ inst' = Held(kind, pk, Collector_collect(kind, pk), "collected")
            /\ resp' = Response("delete", kind, pk, "collected", {}, NoData)
       ELSE /\ inst' = NoInst
            /\ resp' = Response("delete", kind, pk, "not_found", {}, NoData)
    /\ UNCHANGED <<store, next_pk, today>>

\* Collector.delete: SET_NULL on the collected rows, the collected rows of a
\* cascade and the row itself deleted; the transaction is rolled back when a
\* foreign key is left dangling.
delete_execute ==
    /\ inst # NoInst
    /\ inst.phase = "collected"
    /\ LET kind == inst.kind
           pk == inst.pk
           found == inst.rec
           c == IF kind = "Collaborator" THEN Drop(collaborators, {pk}) ELSE collaborators
           p == CASE kind = "Property" -> Drop(properties, {pk})
                  [] kind = "Collaborator" ->
                        [k \in DOMAIN properties |->
                            IF k \in found.properties
                            THEN [properties[k] EXCEPT !.collaborator = NULL]
                            ELSE properties[k]]
                  [] OTHER -> properties
           cl == IF kind = "Client" THEN Drop(clients, {pk}) ELSE clients
           t == CASE kind = "Task" -> Drop(tasks, {pk})
                  [] kind = "Collaborator" ->
                        [k \in DOMAIN tasks |->
                            IF k \in found.tasks
                            THEN [tasks[k] EXCEPT !.assigned_to = NULL]
                            ELSE tasks[k]]
                  [] OTHER -> Drop(tasks, found.tasks)
           ls == links \ found.links
       IN  IF ForeignKeysHold(c, p, cl, t, ls)
           THEN /\ collaborators' = c
                /\ properties' = p
                /\ clients' = cl
                /\ tasks' = t
                /\ links' = ls
                /\ resp' = Response("delete", kind, pk, "deleted", {}, NoData)
           ELSE /\ UNCHANGED store
                /\ resp' = Response("delete", kind, pk, "IntegrityError", {}, NoData)
    /\ inst' = NoInst
    /\ UNCHANGED <<next_pk, today>>

\* Submissions and keyword arguments that refer to key 1 of another table,
\* stored or not.
RefInputs(kind) ==
    CASE kind = "Collaborator" -> {PersonData("Collaborator", "a@x.com")}
      [] kind = "Client" -> {OneClient}
      [] kind = "Property" ->
            {PropertyData(SomeText, 1, "HOUSE", "AVAILABLE", 1, c, Absent, Absent) :
                c \in {NULL, 1}}
      [] kind = "Task" ->
            {TaskData(SomeText, 1, "PENDING", "MEDIUM", NULL, NULL, NULL),
             TaskData(SomeText, 1, "PENDING", "MEDIUM", 1, NULL, NULL),
             TaskData(SomeText, 1, "PENDING", "MEDIUM", NULL, 1, NULL),
             TaskData(SomeText, 1, "PENDING", "MEDIUM", NULL, NULL, 1)}

RefKwargs == {[collaborator |-> 1], [related_property |-> 1], [client |-> 1],
              [assigned_to |-> 1]}

ref_create_is_valid(kind, data) ==
    /\ RowsAllocated < MaxFewRows
    /\ create_is_valid(kind, data)

ref_update_is_valid(data) ==
    /\ inst # NoInst
    /\ data \in RefInputs(inst.kind)
    /\ update_is_valid(data)

ref_service_update(kwargs) ==
    /\ inst # NoInst
    /\ inst.phase = "loaded"
    /\ BaseService_update(kwargs)

NextRef ==
    \/ \E kind \in Kinds : \E d \in RefInputs(kind) : ref_create_is_valid(kind, d)
    \/ form_create_save
    \/ \E kind \in Kinds : \E rec \in RefInputs(kind) : dash_create(kind, rec)
    \/ \E kind \in Kinds, pk \in Pks : form_update_get(kind, pk)
    \/ \E d \in UNION {RefInputs(kind) : kind \in Kinds} : ref_update_is_valid(d)
    \/ form_update_save
    \/ \E kwargs \in RefKwargs : ref_service_update(kwargs)
    \/ \E kind \in Kinds, pk \in Pks : delete_view(kind, pk)
    \/ \E kind \in Kinds, pk \in Pks : delete_collect(kind, pk)
    \/ delete_execute
    \/ \E c \in Pks, p \in Pks, f \in LinkFields : links_add(c, p, f)
    \/ release

SpecRef == Init /\ [][NextRef]_vars

\* C28: in every reachable state each Property.collaborator, Task.assigned_to,
\* Task.related_property and Task.client that is not absent, and each
\* interested-in and owns link of a Client, refers to a stored record.
C28_ReferencesStored ==
    /\ \A k \in DOMAIN properties :
          properties[k].collaborator # NULL => Exists("Collaborator", properties[k].collaborator)
    /\ \A k \in DOMAIN tasks :
          /\ tasks[k].assigned_to # NULL => Exists("Collaborator", tasks[k].assigned_to)
          /\ tasks[k].related_property # NULL => Exists("Property", tasks[k].related_property)
          /\ tasks[k].client # NULL => Exists("Client", tasks[k].client)
    /\ \A l \in links : Exists("Client", l.client) /\ Exists("Property", l.property)

\* A Task that passed validation with a reference to Property 1 was refused
\* by the database at save(), Property 1 having been deleted in between.
C28_Witness ==
    /\ resp.op = "save" /\ resp.kind = "Task" /\ resp.outcome = "IntegrityError"
    /\ properties = <<>>
    /\ clients = <<>>
    /\ collaborators = <<>>
    /\ next_pk["Property"] = 2

\* ------------------------------------------------------------------ SpecGone
\* The status helpers on instances whose rows are deleted while they are held.

NextGone ==
    \/ NextMark
    \/ \E pk \in Pks : property_delete(pk)
    \/ \E pk \in Pks : task_delete(pk)

SpecGone == Init /\ [][NextGone]_vars

MarkOps == {"mark_as_sold", "mark_as_pending", "mark_complete", "mark_in_progress"}

\* C29: mark_as_sold, mark_as_pending, mark_complete and mark_in_progress,
\* called on a held instance whose row is no longer stored, end in an error,
\* and no table and no key counter changes: the row is not written again and
\* no other row is touched.
C29_GoneStaysGone ==
    [][\A kind \in {"Property", "Task"} :
          (resp'.op \in MarkOps /\ resp'.kind = kind /\ ~Exists(kind, resp'.pk)) =>
              /\ resp'.outcome = "DatabaseError"
              /\ store' = store
              /\ next_pk' = next_pk]_vars

\* mark_as_sold has failed on a held Property that was deleted, with a Task
\* stored beside it.
C29_Witness ==
    /\ resp.op = "mark_as_sold" /\ resp.outcome = "DatabaseError"
    /\ inst # NoInst
    /\ inst.rec.status = "SOLD"
    /\ properties = <<>>
    /\ tasks # <<>>

\* ----------------------------------------------------------------- SpecStats
\* get_dashboard_stats query by query: the six counts are six statements,
\* each reading the tables as they are when it runs, and other requests may
\* write between two of them.

StatKeys == <<"property_count", "client_count", "pending_task_count",
              "collaborator_count", "available_properties", "overdue_tasks">>

\* The value of one entry of the dictionary, read now.
Stat(key) == DashboardService_get_dashboard_stats[key]

\* home calls DashboardService.get_dashboard_stats().
stats_begin ==
    /\ inst = NoInst
    /\ inst' = Held("Dashboard", NULL, <<>>, "stats")
    /\ resp' = Response("stats_begin", "none", NULL, "ok", {}, NoData)
    /\ UNCHANGED <<store, next_pk, today>>

\* The next count of the dictionary; after the last one the dictionary is
\* returned.
stats_query ==
    /\ inst # NoInst
    /\ inst.phase = "stats"
    /\ LET counted == Append(inst.rec, Stat(StatKeys[Len(inst.rec) + 1])) IN
       IF Len(counted) < Len(StatKeys)
       THEN /\ inst' = [inst EXCEPT !.rec = counted]
            /\ resp' = Response("stats_query", "none", NULL, "ok", {}, NoData)
       ELSE /\ inst' = NoInst
            /\ resp' = Response("get_dashboard_stats", "none", NULL, "ok", {},
                                [key \in {StatKeys[i] : i \in 1..Len(StatKeys)} |->
                                    counted[CHOOSE i \in 1..Len(StatKeys) : StatKeys[i] = key]])
    /\ UNCHANGED <<store, next_pk, today>>

StatProperties == {MarkProperty(st, 1) : st \in {"AVAILABLE", "SOLD"}}

NextStats ==
    \/ stats_begin
    \/ stats_query
    \/ \E rec \in StatProperties : dash_create("Property", rec)
    \/ \E pk \in Pks : \E d \in StatProperties : property_update(pk, d)
    \/ \E pk \in Pks : property_delete(pk)

SpecStats == Init /\ [][NextStats]_vars

\* C30: every dictionary get_dashboard_stats returns has available_properties
\* <= property_count, whatever creates, status changes and deletes of
\* Properties run between its queries.
C30_AvailableWithinCount ==
    resp.op = "get_dashboard_stats" =>
        resp.data.available_properties <= resp.data.property_count

====
